---------------------------- MODULE Spec2Model ----------------------------
(***************************************************************************)
(* PhasmaDB: the server's session (server/server.py, server/auth.py), the  *)
(* client's connection task (client/phasmadb.py) and the row store         *)
(* (server/dbfuncs.py) as state machines.                                  *)
(*                                                                         *)
(* Three specifications share the module:                                  *)
(*   Spec        one server connection, from the handshake to its end;     *)
(*   SpecClient  one client connection object with its callers and peer;   *)
(*   SpecStore   sessions running row commands against the backing store.  *)
(* Each leaves the other parts' variables at their initial values.         *)
(***************************************************************************)
EXTENDS Integers, Sequences, FiniteSets, TLC

VARIABLES
    \* ---- server session (server.py index, auth.py handshake)
    state,        \* AwaitUser, AwaitResponse, AuthedIdle, Dispatching, Closed
    login,        \* handshake()'s local username (<<>> before the first message)
    username,     \* what handshake() returned to index() (<<>>: nothing, or None)
    token,        \* the bytes drawn for this handshake (<<>> before that)
    response,     \* the hex string of the handshake response, once one was read
    req,          \* the command being dispatched
    outbox,       \* every message the server wrote with ws.send_json, in order
    dispatched,   \* every command handed to dbfuncs.process_command, in order
    received,     \* every truthy JSON object the command loop read, in order
    ending,       \* how index() ended: "", "close", "return", "raise"
    \* ---- client connection (phasmadb.py PhasmaDBConnection)
    commands,       \* self._commands: the queue of (command, future)
    exception,      \* self._exception ("" for None)
    futures,        \* the futures __send_command created, by command number
    refused,        \* calls of __send_command that raised the stored exception
    task,           \* where connection() is: start, await_challenge, loop,
                    \* await_response, done
    task_end,       \* how connection() ended
    ended_at,       \* the number of futures that existed when it ended
    current_future, \* connection()'s local current_future (0 for None)
    sent_exit,      \* connection()'s local sent_exit
    ws_closed,      \* ws.closed
    written,        \* the commands written to the channel, in order
    delivered,      \* responses given to a future
    peer_inbox,     \* commands the server has received and not answered
    peer_alive,     \* the server's side of the connection is open
    peer_authed,    \* the server's handshake has accepted the response
    inbound,        \* frames on their way to the client
    \* ---- store and the sessions using it (dbfuncs.py)
    tables,       \* db.tables: the catalog, a set of {name, owner, indices}
    colls,        \* the row collections, by collection name
    next_id,      \* new_db_id(): the ids handed out so far
    sess,         \* per session: the command it runs and its reply
    tasks,        \* the insert_datum tasks created and not yet awaited
    started       \* the commands the sessions have started

srvVars ==
    <<state, login, username, token, response, req, outbox, dispatched,
      received, ending>>

cliVars ==
    <<commands, exception, futures, refused, task, task_end, ended_at,
      current_future, sent_exit, ws_closed, written, delivered, peer_inbox,
      peer_alive, peer_authed, inbound>>

dbVars == <<tables, colls, next_id, sess, tasks, started>>

vars == <<srvVars, cliVars, dbVars>>

\* What the actions of one part leave alone.
notServer == <<cliVars, dbVars>>
notClient == <<srvVars, dbVars>>
notStore == <<srvVars, cliVars>>

-----------------------------------------------------------------------------
(* Bounds of the model *)

\* Length of the challenge token in bytes (64 in auth.py, scaled down).
TokenLen == 1
\* Commands one session reads before the model stops feeding it.
MaxReads == 2
\* Calls of __send_command on one client connection.
MaxCmds == 3
\* The largest integer a cell or an operand holds.
MaxInt == 2

-----------------------------------------------------------------------------
(* JSON values and frames *)

\* A JSON object is a function from its keys; <<>> is the empty object {}.
EmptyObj == <<>>

Has(obj, k) == k \in DOMAIN obj

\* What aiohttp's ws.receive() can hand to read_json.  A TEXT frame carries
\* text that does not parse ("bad_json"), null, a value that is no object
\* ("scalar": a number, a string, a list; `truthy` tells Python's bool of it)
\* or an object.
TextFrame(shape, truthy, obj) ==
    [type |-> "TEXT", shape |-> shape, truthy |-> truthy, obj |-> obj]

ObjFrame(obj) == TextFrame("object", obj # EmptyObj, obj)

ControlFrames ==
    { [type |-> t, shape |-> "", truthy |-> FALSE, obj |-> EmptyObj] :
        t \in {"CLOSE", "ERROR", "BINARY"} }

NonObjectFrames ==
    { TextFrame("bad_json", FALSE, EmptyObj),
      TextFrame("null", FALSE, EmptyObj),
      TextFrame("scalar", FALSE, EmptyObj),
      TextFrame("scalar", TRUE, EmptyObj) }

\* auth.py read_json: the JSON value of a TEXT frame, None for every other
\* frame; msg.json() raises on text that is not JSON.
read_json(frame) ==
    IF frame.type = "TEXT"
    THEN IF frame.shape = "bad_json" THEN [kind |-> "raise"]
         ELSE IF frame.shape = "null" THEN [kind |-> "none"]
         ELSE [kind |-> "value", shape |-> frame.shape,
               truthy |-> frame.truthy, obj |-> frame.obj]
    ELSE [kind |-> "none"]

\* A test for None alone, `x is None`.
Falsy_NoneOnly(r) == r.kind = "none"

\* Python's `not x` for what read_json returned.
Falsy(r) == r.kind = "none" \/ (r.kind = "value" /\ ~r.truthy)

\* x['key'] raises for None, for a value that is no object and for an object
\* without the key.
CanIndex(r, k) == r.kind = "value" /\ r.shape = "object" /\ Has(r.obj, k)

-----------------------------------------------------------------------------
(* Usernames: strings as sequences of characters *)

Digits == {"0", "1", "2", "3", "4", "5", "6", "7", "8", "9"}
Upper == {"A", "B", "C", "D", "E", "F", "G", "H", "I", "J", "K", "L", "M",
          "N", "O", "P", "Q", "R", "S", "T", "U", "V", "W", "X", "Y", "Z"}
Lower == {"a", "b", "c", "d", "e", "f", "g", "h", "i", "j", "k", "l", "m",
          "n", "o", "p", "q", "r", "s", "t", "u", "v", "w", "x", "y", "z"}

\* re.compile("[0-9A-Za-z_]+").fullmatch
USERNAME_REGEX(s) ==
    /\ Len(s) >= 1
    /\ \A i \in 1..Len(s) : s[i] \in Digits \cup Upper \cup Lower \cup {"_"}

\* The names a client may send, and the names with a file public_keys/<name>.pem.
Usernames == { <<"a">>, <<"b">>, <<"a", "-">>, <<>> }
Registered == { <<"a">>, <<"a", "-">> }

\* auth.py load_public_key: the key, or None when the file cannot be read.
load_public_key(u) == IF u \in Registered THEN [owner |-> u] ELSE [owner |-> <<>>]
\* A handshake that takes whatever load_public_key returned for a key.
HasKey_Any(k) == TRUE

\* auth.py 45: `if not public_key`.
HasKey(k) == k.owner # <<>>

-----------------------------------------------------------------------------
(* Hex strings and tokens *)

HexChars == {"0", "a", "A", "g"}

HexDigit(c) ==
    CASE c = "0" -> 0
      [] c \in {"a", "A"} -> 10
      [] OTHER -> -1

\* bytes.fromhex: two hex digits per byte, in either case; anything else
\* raises ValueError (ok = FALSE).
RECURSIVE HexBytes(_)
HexBytes(s) ==
    IF Len(s) = 0 THEN <<>>
    ELSE <<16 * HexDigit(s[1]) + HexDigit(s[2])>> \o HexBytes(SubSeq(s, 3, Len(s)))

fromhex(s) ==
    IF Len(s) % 2 = 0 /\ \A i \in 1..Len(s) : HexDigit(s[i]) >= 0
    THEN [ok |-> TRUE, bytes |-> HexBytes(s)]
    ELSE [ok |-> FALSE, bytes |-> <<>>]

Bytes == {10, 160}

SeqsOf(S, n) == UNION { [1..k -> S] : k \in 0..n }

\* random.SystemRandom().randbytes(64)
Tokens == [1..TokenLen -> Bytes]

\* bytes.hex() of the model's bytes, in lower or in upper case.
HexOf(b, upper) ==
    LET a == IF upper THEN "A" ELSE "a"
    IN  IF b = 10 THEN <<"0", a>> ELSE <<a, "0">>

Hex(bytes, upper) ==
    [i \in 1..(2 * Len(bytes)) |-> HexOf(bytes[(i + 1) \div 2], upper)[((i - 1) % 2) + 1]]

\* The hex strings a client may answer with: every string of up to one
\* byte's length, and the hex of every token in either case.
HexStrings ==
    SeqsOf(HexChars, 2) \cup { Hex(t, upper) : t \in Tokens, upper \in BOOLEAN }

-----------------------------------------------------------------------------
(* Error codes (dbfuncs.py PhasmaDBErrorCode) *)

COMMAND_TYPE_DOES_NOT_EXIST == 1
REQUEST_IMPROPERLY_FORMATTED == 2
USER_DOES_NOT_EXIST == 101
AUTH_BYTES_NO_MATCH == 102
TABLE_DOES_NOT_EXIST == 201
TABLE_ALREADY_EXISTS == 202
ROW_DOES_NOT_EXIST == 301
ROW_SAME_UNIQUES_ALREADY_EXISTS == 302
ROW_LACKS_SOME_INDEXED_VALUES == 303
ROW_HAS_EXTRA_INDEXED_VALUES == 304
INVALID_INDEX_TYPE == 305

-----------------------------------------------------------------------------
(* Messages the server writes *)

\* public_key.encrypt(token, PKCS1v15()).hex(): only the key's owner recovers
\* the token.  None is the ciphertext for nobody.
Encrypted(key, t) == [to |-> key.owner, plain |-> t]
NoChallenge == [to |-> <<>>, plain |-> <<>>]

ChallengeMsg(key, t) == [challenge |-> Encrypted(key, t)]
RejectUserMsg == [challenge |-> NoChallenge, error |-> USER_DOES_NOT_EXIST]
FailureMsg(code) == [success |-> FALSE, error |-> code]
SuccessMsg == [success |-> TRUE]
FarewellMsg(id) == [farewell |-> TRUE, cmd_id |-> id]

-----------------------------------------------------------------------------
(* Commands as the command loop sees them *)

\* The commands process_command has a branch for.
\* A process_command with one more branch, for "bogus".
HandlerCmds_OneMore ==
    {"create_table", "insert_data", "query_by_id", "query_data",
     "delete_by_id", "delete_data", "drop_table", "bogus"}

\* The commands process_command has a branch for (dbfuncs.py 437-457).
HandlerCmds ==
    {"create_table", "insert_data", "query_by_id", "query_data",
     "delete_by_id", "delete_data", "drop_table"}

\* The fields process_command reads with command[...] in each branch.
RequiredFields(cmd) ==
    CASE cmd = "create_table" -> {"name", "indices"}
      [] cmd = "insert_data" -> {"table", "data"}
      [] cmd = "query_by_id" -> {"table", "row_id"}
      [] cmd = "query_data" -> {"table", "query"}
      [] cmd = "delete_by_id" -> {"table", "row_id"}
      [] cmd = "delete_data" -> {"table", "filter"}
      [] cmd = "drop_table" -> {"table"}
      [] OTHER -> {}

\* A field's value is "ok" (of the type the handler expects) or "badtype" (a
\* string where a map is read, a non-integer for a sort/unique column, ...).
WellFormed(cmd) == [k \in {"cmd"} \cup RequiredFields(cmd) |-> IF k = "cmd" THEN cmd ELSE "ok"]

WithCmdId(obj, id) ==
    [k \in DOMAIN obj \cup {"cmd_id"} |-> IF k = "cmd_id" THEN id ELSE obj[k]]

Without(obj, k) == [j \in DOMAIN obj \ {k} |-> obj[j]]

BadType(obj, k) == [j \in DOMAIN obj |-> IF j = k THEN "badtype" ELSE obj[j]]

\* The payload field whose type the handler depends on.
PayloadField(cmd) ==
    CASE cmd = "create_table" -> "indices"
      [] cmd = "insert_data" -> "data"
      [] cmd = "query_data" -> "query"
      [] cmd = "delete_data" -> "filter"
      [] OTHER -> "table"

CmdIds == {7}

\* The objects a client may send in the command loop: every command well
\* formed, commands with a field missing or a payload of the wrong type, an
\* unknown command, exit, an object without cmd and the empty object; exit and
\* one handler command also with a cmd_id.
BareCommands ==
    LET wf == { WellFormed(c) : c \in HandlerCmds }
    IN  wf
        \cup { Without(o, PayloadField(o.cmd)) : o \in { x \in wf : x.cmd \in {"insert_data", "drop_table"} } }
        \cup { BadType(o, PayloadField(o.cmd)) : o \in { x \in wf : x.cmd \in {"insert_data", "query_data"} } }
        \cup { [cmd |-> "exit"], [cmd |-> "bogus"], [table |-> "ok"] }

Commands ==
    BareCommands
        \cup { WithCmdId(o, id) : o \in { [cmd |-> "exit"], WellFormed("query_by_id") }, id \in CmdIds }
        \cup { EmptyObj }

CommandFrames == { ObjFrame(o) : o \in Commands } \cup NonObjectFrames \cup ControlFrames

\* The error codes each handler returns as a FailureResult.
HandlerErrors(cmd) ==
    CASE cmd = "create_table" -> {TABLE_ALREADY_EXISTS, REQUEST_IMPROPERLY_FORMATTED}
      [] cmd = "query_by_id" -> {TABLE_DOES_NOT_EXIST, ROW_DOES_NOT_EXIST}
      [] cmd = "delete_by_id" -> {TABLE_DOES_NOT_EXIST, ROW_DOES_NOT_EXIST}
      [] cmd = "drop_table" -> {TABLE_DOES_NOT_EXIST}
      [] cmd \in {"query_data", "delete_data"} ->
            {TABLE_DOES_NOT_EXIST, REQUEST_IMPROPERLY_FORMATTED,
             ROW_HAS_EXTRA_INDEXED_VALUES, INVALID_INDEX_TYPE}
      [] OTHER -> {}

\* The fields read before the handler's first look at the catalog:
\* process_command's own command[...] and create_table's table_spec['name'].
EntryFields(cmd) == IF cmd = "create_table" THEN {"name"} ELSE RequiredFields(cmd)

\* The reply of a handler that succeeded with an output that is not falsy:
\* result_to_json sets `success` and the output under the command's key
\* (dbfuncs.py 87-89); the output is a row, a dict of rows or a count.
KeyedMsg(output_key) ==
    [k \in {"success", output_key} |-> IF k = "success" THEN TRUE ELSE "output"]

\* The key process_command passes to result_to_json (dbfuncs.py 445, 448, 454).
OutputKey(cmd) ==
    CASE cmd = "query_by_id" -> "row"
      [] cmd = "query_data" -> "data"
      [] OTHER -> "count"

\* dbfuncs.process_command as the session sees it: what awaiting it can yield
\* for `command`, over all states of the store.  A reply is the JSON it returns;
\* "raise" is an exception leaving it (KeyError for a field it reads and the
\* command lacks, ValueError/TypeError/AttributeError for a payload of the wrong
\* type, the store's DuplicateKeyError in insert_data and create_table, its
\* OperationFailure for a compiled filter it rejects or an index it cannot
\* build).  A handler that finds the table's catalog entry missing (or, for
\* create_table, present) returns before it reads the payload.  query_by_id,
\* query_data and delete_data answer through result_to_json: a success carries
\* the output under its key, and a falsy output (no row matched, count 0)
\* gives the empty object.
process_command(command) ==
    LET cmd == command.cmd
        reply(m) == [kind |-> "reply", msg |-> m]
        raise == [kind |-> "raise", msg |-> EmptyObj]
        payload == PayloadField(cmd)
    IN  IF cmd \notin HandlerCmds
        THEN { reply(FailureMsg(COMMAND_TYPE_DOES_NOT_EXIST)) }
        ELSE IF ~(EntryFields(cmd) \subseteq DOMAIN command)
        THEN { raise }
        ELSE IF cmd = "create_table" /\ ~Has(command, "indices")
        THEN { raise, reply(FailureMsg(TABLE_ALREADY_EXISTS)) }
        ELSE IF cmd = "create_table" /\ command.indices = "badtype"
        THEN { raise, reply(FailureMsg(TABLE_ALREADY_EXISTS)),
               reply(FailureMsg(REQUEST_IMPROPERLY_FORMATTED)) }
        ELSE IF cmd = "insert_data" /\ command.data = "badtype"
        THEN { raise, reply([results |-> "itemized"]) }
        ELSE IF cmd \in {"query_data", "delete_data"} /\ command[payload] = "badtype"
        THEN { raise, reply(FailureMsg(TABLE_DOES_NOT_EXIST)) }
        ELSE IF cmd = "insert_data"
        THEN { raise, reply([results |-> "itemized"]) }
        ELSE IF cmd = "query_by_id"
        THEN { reply(FailureMsg(e)) : e \in HandlerErrors(cmd) }
             \cup { reply(KeyedMsg(OutputKey(cmd))) }
        ELSE IF cmd \in {"query_data", "delete_data"}
        THEN { reply(FailureMsg(e)) : e \in HandlerErrors(cmd) }
             \cup { reply(KeyedMsg(OutputKey(cmd))), reply(EmptyObj), raise }
        ELSE { reply(FailureMsg(e)) : e \in HandlerErrors(cmd) }
             \cup { reply(SuccessMsg) }
             \cup (IF cmd = "create_table" THEN { raise } ELSE {})

-----------------------------------------------------------------------------
(* The server session: server.py index() with auth.py handshake() *)

\* The objects a client may send in the handshake.
LoginFrames ==
    { ObjFrame([username |-> u]) : u \in Usernames }
        \cup { ObjFrame(EmptyObj), ObjFrame([user |-> <<"a">>]) }
        \cup NonObjectFrames \cup ControlFrames

ResponseFrames ==
    { ObjFrame([response |-> h]) : h \in HexStrings }
        \cup { ObjFrame(EmptyObj), ObjFrame([token |-> <<"0", "a">>]) }
        \cup NonObjectFrames \cup ControlFrames

NoResponse == [seen |-> FALSE, hex |-> <<>>]

InitServer ==
    /\ state = "AwaitUser"
    /\ login = <<>>
    /\ username = <<>>
    /\ token = <<>>
    /\ response = NoResponse
    /\ req = EmptyObj
    /\ outbox = <<>>
    /\ dispatched = <<>>
    /\ received = <<>>
    /\ ending = ""

\* An exception leaves index(): aiohttp ends the connection, nothing is written.
Raise ==
    /\ state' = "Closed"
    /\ ending' = "raise"
    /\ outbox' = outbox

\* handshake() writes msg and returns None; index() closes and returns
\* (server.py 24-26); also the exit branch (server.py 33-35).
SendAndClose(msg) ==
    /\ state' = "Closed"
    /\ ending' = "close"
    /\ outbox' = Append(outbox, msg)

\* auth.py 91-106: the first message of the handshake.
RecvLogin(frame) ==
    /\ UNCHANGED notServer
    /\ state = "AwaitUser"
    /\ LET login_msg == read_json(frame)
       IN  IF login_msg.kind = "raise" \/ ~CanIndex(login_msg, "username")
           THEN Raise /\ UNCHANGED <<login, token>>
           ELSE LET u == login_msg.obj.username
                    public_key == load_public_key(u)
                IN  /\ login' = u
                    /\ IF ~USERNAME_REGEX(u) \/ ~HasKey(public_key)
                       THEN SendAndClose(RejectUserMsg) /\ token' = token
                       ELSE \E t \in Tokens :
                              /\ token' = t
                              /\ outbox' = Append(outbox, ChallengeMsg(public_key, t))
                              /\ state' = "AwaitResponse"
                              /\ ending' = ending
    /\ UNCHANGED <<username, response, req, dispatched, received>>

\* A comparison of the lengths alone.
TokenMismatch_LengthOnly(bytes, t) == Len(bytes) # Len(t)

\* auth.py 115: response != token, on the decoded bytes.
TokenMismatch(bytes, t) == bytes # t

\* auth.py 108-119: the second message of the handshake, and server.py 23-26.
RecvResponse(frame) ==
    /\ UNCHANGED notServer
    /\ state = "AwaitResponse"
    /\ LET r == read_json(frame)
       IN  IF r.kind = "raise"
           THEN Raise /\ UNCHANGED <<username, response>>
           ELSE IF Falsy(r)
           THEN /\ SendAndClose(FailureMsg(REQUEST_IMPROPERLY_FORMATTED))
                /\ UNCHANGED <<username, response>>
           ELSE IF ~CanIndex(r, "response")
           THEN Raise /\ UNCHANGED <<username, response>>
           ELSE LET decoded == fromhex(r.obj.response)
                IN  /\ response' = [seen |-> TRUE, hex |-> r.obj.response]
                    /\ IF ~decoded.ok
                       THEN Raise /\ username' = username
                       ELSE IF TokenMismatch(decoded.bytes, token)
                       THEN SendAndClose(FailureMsg(AUTH_BYTES_NO_MATCH)) /\ username' = username
                       ELSE /\ username' = login
                            /\ state' = "AuthedIdle"
                            /\ UNCHANGED <<outbox, ending>>
    /\ UNCHANGED <<login, token, req, dispatched, received>>

\* server.py 29-36: one message of the command loop, up to the await of
\* process_command.
ReadCommand(frame) ==
    /\ UNCHANGED notServer
    /\ state = "AuthedIdle"
    /\ Len(received) < MaxReads
    /\ LET r == read_json(frame)
       IN  IF r.kind = "raise"
           THEN Raise /\ UNCHANGED <<req, dispatched, received>>
           ELSE IF Falsy(r)
           THEN /\ state' = "Closed"
                /\ ending' = "return"
                /\ UNCHANGED <<outbox, req, dispatched, received>>
           ELSE IF r.shape # "object"
           THEN Raise /\ UNCHANGED <<req, dispatched, received>>
           ELSE /\ received' = Append(received, r.obj)
                /\ IF ~Has(r.obj, "cmd")
                   THEN Raise /\ UNCHANGED <<req, dispatched>>
                   ELSE IF r.obj.cmd = "exit"
                   THEN /\ IF ~Has(r.obj, "cmd_id")
                           THEN Raise
                           ELSE SendAndClose(FarewellMsg(r.obj.cmd_id))
                        /\ UNCHANGED <<req, dispatched>>
                   ELSE /\ req' = r.obj
                        /\ dispatched' = Append(dispatched, r.obj)
                        /\ state' = "Dispatching"
                        /\ UNCHANGED <<outbox, ending>>
    /\ UNCHANGED <<login, username, token, response>>

\* server.py 36-37: process_command returns and its result is written, or it
\* raises.
Respond ==
    /\ UNCHANGED notServer
    /\ state = "Dispatching"
    /\ \E out \in process_command(req) :
         IF out.kind = "raise"
         THEN Raise
         ELSE /\ outbox' = Append(outbox, out.msg)
              /\ state' = "AuthedIdle"
              /\ ending' = ending
    /\ UNCHANGED <<login, username, token, response, req, dispatched, received>>

NextServer ==
    \/ \E frame \in LoginFrames : RecvLogin(frame)
    \/ \E frame \in ResponseFrames : RecvResponse(frame)
    \/ \E frame \in CommandFrames : ReadCommand(frame)
    \/ Respond

-----------------------------------------------------------------------------
(* Values of indexed cells and their coercions *)

\* A JSON scalar or list as a tagged record: an integer, a string, or a list
\* of strings.
IntV(n) == [t |-> "int", n |-> n, s |-> "", l |-> <<>>]
StrV(s) == [t |-> "str", n |-> 0, s |-> s, l |-> <<>>]
ListV(l) == [t |-> "list", n |-> 0, s |-> "", l |-> l]

\* The integers of the model and their decimal spellings.
Ints == 1..MaxInt
Decimal(n) == CASE n = 1 -> "1" [] n = 2 -> "2" [] n = 3 -> "3" [] OTHER -> "4"
Numerals == { Decimal(n) : n \in Ints }

\* Python int(x): an int as it is, a string by its decimal value; ValueError
\* for any other string and TypeError for a list (ok = FALSE, `error` the
\* exception).
int(x) ==
    IF x.t = "int" THEN [ok |-> TRUE, v |-> IntV(x.n), error |-> ""]
    ELSE IF x.t = "str" /\ x.s \in Numerals
    THEN [ok |-> TRUE, v |-> IntV(CHOOSE n \in Ints : Decimal(n) = x.s), error |-> ""]
    ELSE [ok |-> FALSE, v |-> IntV(0),
          error |-> IF x.t = "list" THEN "TypeError" ELSE "ValueError"]

\* Python str(x) for an int or a string.
str(x) == IF x.t = "int" THEN Decimal(x.n) ELSE x.s

\* dbfuncs.py 155-162: the stored value of a cell for a column of index_type.
\* A list element is a string already (str(token) changes nothing).
CellValue(index_type, x) ==
    IF index_type \in {"sort", "unique"} THEN int(x)
    ELSE IF x.t = "list" THEN [ok |-> TRUE, v |-> x, error |-> ""]
    ELSE [ok |-> TRUE, v |-> StrV(str(x)), error |-> ""]

-----------------------------------------------------------------------------
(* The backing store: MongoDB collections with unique indexes *)

\* A stored document {_id, row_id, index, extra}.
Doc(id, row_id, index, extra) ==
    [id |-> id, row_id |-> row_id, index |-> index, extra |-> extra]

\* find_one found nothing.
NoDoc == Doc(0, "", <<>>, "")

\* A collection: its documents and its indexes: the unique one on row_id,
\* the unique ones on index.<column> (uniq_cols) and the plain ones on
\* index.<column> (plain_cols).  The index on _id always exists.
EmptyColl == [rows |-> {}, uniq_row_id |-> FALSE, uniq_cols |-> {}, plain_cols |-> {}]

\* db[name]: a collection that was never written is empty and has no index.
Coll(name) == IF name \in DOMAIN colls THEN colls[name] ELSE EmptyColl

\* The keys a value contributes to an index on its field: a list contributes
\* each of its elements (a multikey index).
IndexKeys(v) == IF v.t = "list" THEN { StrV(v.l[i]) : i \in DOMAIN v.l } ELSE {v}

NullKey == StrV("null")

FieldKeys(doc, col) ==
    IF col \in DOMAIN doc.index THEN IndexKeys(doc.index[col]) ELSE {NullKey}

\* {field: v} in a filter: the field equals v, or is a list holding v.
MatchesValue(doc, col, v) ==
    /\ col \in DOMAIN doc.index
    /\ \/ doc.index[col] = v
       \/ doc.index[col].t = "list" /\ v.t = "str" /\ v \in IndexKeys(doc.index[col])

\* The store refuses a write of `doc` into collection c (DuplicateKeyError)
\* when a document other than `replaced` has its _id, or its key in a unique
\* index.
DuplicateKey(c, doc, replaced) ==
    \E d \in c.rows \ {replaced} :
        \/ d.id = doc.id
        \/ c.uniq_row_id /\ d.row_id = doc.row_id
        \/ \E col \in c.uniq_cols : FieldKeys(d, col) \cap FieldKeys(doc, col) # {}

\* collection.find_one(filter): some matching document, None without one.
\* `found` are the documents of the collection that match the filter.
find_one(found) == IF found = {} THEN {NoDoc} ELSE found

\* A filter on row_id that every document matches.
ByRowId_All(c, row_id) == c.rows

\* The filter {'row_id': row_id}
ByRowId(c, row_id) == { d \in c.rows : d.row_id = row_id }

\* collection.insert_one(document); `error` is the exception of a refused
\* write.
insert_one(c, doc) ==
    IF DuplicateKey(c, doc, NoDoc)
    THEN [ok |-> FALSE, coll |-> c, error |-> "DuplicateKeyError"]
    ELSE [ok |-> TRUE, coll |-> [c EXCEPT !.rows = @ \cup {doc}], error |-> ""]

\* collection.replace_one({'row_id': row_id}, replacement, upsert=True) on the
\* matched document `old` (NoDoc: none matches, the replacement is inserted).
\* The _id of a document cannot change: a replacement with another _id is
\* refused before the indexes are looked at (WriteError, code 66).
replace_one(c, old, doc) ==
    IF old = NoDoc THEN insert_one(c, doc)
    ELSE IF old.id # doc.id
    THEN [ok |-> FALSE, coll |-> c, error |-> "WriteError"]
    ELSE IF DuplicateKey(c, doc, old)
    THEN [ok |-> FALSE, coll |-> c, error |-> "DuplicateKeyError"]
    ELSE [ok |-> TRUE, coll |-> [c EXCEPT !.rows = (@ \ {old}) \cup {doc}], error |-> ""]

-----------------------------------------------------------------------------
(* Results and their JSON (dbfuncs.py 29-93) *)

\* The output of a success: None, a count, or the rows of a query (a dict
\* from row_id, here its entries in the order they were added).
NoneV == [t |-> "none", n |-> 0]
CountV(n) == [t |-> "int", n |-> n]
RowsV(rows) == [t |-> "dict", n |-> Len(rows), rows |-> rows]

\* The JSON value of an output.
Output(v) == IF v.t = "int" THEN v.n ELSE v.rows

SuccessResult(v) == [ok |-> TRUE, code |-> 0, result |-> v]
FailureResult(code) == [ok |-> FALSE, code |-> code, result |-> NoneV]

\* Python truth of an output: None, 0 and the empty dict are false.
Truthy(v) == v.t # "none" /\ v.n # 0

\* dbfuncs.py 75-80
empty_result_to_json(result) ==
    IF ~result.ok /\ result.code # 0 THEN FailureMsg(result.code) ELSE SuccessMsg

\* dbfuncs.py 83-93
result_to_json(result, output_key) ==
    IF result.ok /\ Truthy(result.result)
    THEN [k \in {"success", output_key} |->
            IF k = "success" THEN TRUE ELSE Output(result.result)]
    ELSE IF ~result.ok /\ result.code # 0 THEN FailureMsg(result.code)
    ELSE EmptyObj

-----------------------------------------------------------------------------
(* The catalog and create_table (dbfuncs.py 58-134) *)

\* An index set is a JSON object, read in the order of its keys: a sequence
\* of (k, v) pairs with distinct k.
IndexPair(k, v) == [k |-> k, v |-> v]

Columns(indices) == { indices[i].k : i \in DOMAIN indices }

TypeOf(indices, col) == indices[CHOOSE i \in DOMAIN indices : indices[i].k = col].v

UniqueColumns(indices) ==
    { indices[i].k : i \in { j \in DOMAIN indices : indices[j].v \in {"unique", "unique_text"} } }

\* The characters of the column names of the model.
Spell(k) ==
    CASE k = "u" -> <<"u">>
      [] k = "w" -> <<"w">>
      [] k = "s" -> <<"s">>
      [] k = "x_1" -> <<"x", "_", "1">>
      [] k = "U" -> <<"U">>
      [] k = "z" -> <<"z">>
      [] OTHER -> <<"$">>

\* re.compile("[0-9a-z_]+").fullmatch in validate_index_name
INDEX_NAME_REGEX(s) ==
    /\ Len(s) >= 1
    /\ \A i \in 1..Len(s) : s[i] \in Digits \cup Lower \cup {"_"}

validate_index_name(k) == INDEX_NAME_REGEX(Spell(k))

validate_index_type(v) == v \in {"sort", "unique", "text", "unique_text"}

\* f'{owner}_{table_name}'
collection_name(owner, table_name) == owner \o <<"_">> \o table_name

\* db.tables.find_one({'name': table_name, 'owner': owner}); the catalog has a
\* unique index on (name, owner) (server.py 11).
FindTable_None(owner, table_name) == {}
FindTable(owner, table_name) ==
    { t \in tables : t.name = table_name /\ t.owner = owner }

NoTable == [name |-> <<>>, owner |-> <<>>, indices |-> <<>>]

\* create_index(..., unique=True) fails on a collection that already holds two
\* documents with one key.
CanIndexUnique(c, byRowId, col) ==
    \A d1, d2 \in c.rows :
        d1 # d2 =>
            IF byRowId THEN d1.row_id # d2.row_id
            ELSE FieldKeys(d1, col) \cap FieldKeys(d2, col) = {}

\* collection.create_index(f"index.{col}", unique=unique).  An index on the
\* key with the same options is kept as it is; one with the other option makes
\* the store refuse (OperationFailure: an index of that name exists with
\* different options); a new unique index is refused when two documents share
\* a key.  ok = FALSE: the call raises and the collection is as it was.
create_index(c, col, unique) ==
    IF col \in c.uniq_cols \cup c.plain_cols
    THEN [ok |-> ((col \in c.uniq_cols) = unique), coll |-> c]
    ELSE IF ~unique
    THEN [ok |-> TRUE, coll |-> [c EXCEPT !.plain_cols = @ \cup {col}]]
    ELSE IF CanIndexUnique(c, FALSE, col)
    THEN [ok |-> TRUE, coll |-> [c EXCEPT !.uniq_cols = @ \cup {col}]]
    ELSE [ok |-> FALSE, coll |-> c]

\* collection.create_index("row_id", unique=True)
create_index_row_id(c) ==
    IF c.uniq_row_id THEN [ok |-> TRUE, coll |-> c]
    ELSE IF CanIndexUnique(c, TRUE, "")
    THEN [ok |-> TRUE, coll |-> [c EXCEPT !.uniq_row_id = TRUE]]
    ELSE [ok |-> FALSE, coll |-> c]

\* dbfuncs.py 121-130: the index creations create_table starts, one on row_id
\* and one for every column, named here "row_id" and by the column.
IndexCreations(indices) == {"row_id"} \cup Columns(indices)

\* dbfuncs.py 121-130: the creation named `field`, on collection c.
BuildIndex(c, indices, field) ==
    IF field = "row_id" THEN create_index_row_id(c)
    ELSE create_index(c, field, TypeOf(indices, field) \in {"unique", "unique_text"})

\* The function f with key k set to v (k is added to its domain).
Put(f, k, v) == [j \in DOMAIN f \cup {k} |-> IF j = k THEN v ELSE f[j]]

-----------------------------------------------------------------------------
(* Filters (dbfuncs.py 223-314) and how the store evaluates them *)

\* A received filter is a JSON object, here its keys in order with their
\* values: <<>> is {}, a column test is <<[k |-> column, v |-> <<[k |-> op,
\* v |-> argument]>>]>>, a combinator is <<[k |-> "and", v |-> <<filters>>]>>.
\* get_sole_key (dbfuncs.py 223-231): the loop over the keys from position i
\* on.  None and the empty string are both false for `not sole_key` and for
\* every test the callers make, and are both "" here: a key found while
\* sole_key is false replaces it, a key found while it is set returns None.
RECURSIVE SoleKeyFrom(_, _, _)
SoleKeyFrom(d, i, sole_key) ==
    IF i > Len(d) THEN sole_key
    ELSE IF sole_key = "" THEN SoleKeyFrom(d, i + 1, d[i].k)
    ELSE ""

get_sole_key(d) == SoleKeyFrom(d, 1, "")

\* query[key] for a key of the object.
Get(d, key) == d[CHOOSE i \in DOMAIN d : d[i].k = key].v

Combinators == {"and", "or", "not_and", "not_or"}

\* The compiled (store) query of a column test; kind is the store's operator.
Leaf(kind, col, v) == [kind |-> kind, col |-> col, v |-> v, subs |-> <<>>]
Node(kind, subs) == [kind |-> kind, col |-> "", v |-> IntV(0), subs |-> subs]

FilterOk(q) == [kind |-> "ok", code |-> 0, q |-> q]
FilterFail(code) == [kind |-> "fail", code |-> code, q |-> Node("", <<>>)]
FilterRaise == [kind |-> "raise", code |-> 0, q |-> Node("", <<>>)]

\* The first failure (or raise) among compiled subqueries, in order.
RECURSIVE FirstBad(_, _)
FirstBad(subs, i) ==
    IF i > Len(subs) THEN 0
    ELSE IF subs[i].kind # "ok" THEN i ELSE FirstBad(subs, i + 1)

\* A column test compiled without looking at the column's type.
ColumnFilter_AnyType(column, test, indices) ==
    IF Spell(column)[1] = "$" THEN FilterFail(REQUEST_IMPROPERLY_FORMATTED)
    ELSE IF column \notin Columns(indices) THEN FilterFail(ROW_HAS_EXTRA_INDEXED_VALUES)
    ELSE LET operation == get_sole_key(test)
         IN  IF operation = "" THEN FilterFail(REQUEST_IMPROPERLY_FORMATTED)
             ELSE IF operation \in {"eq", "neq", "lt", "gt", "lte", "gte"}
             THEN LET n == int(Get(test, operation))
                  IN  IF ~n.ok THEN FilterRaise
                      ELSE IF operation = "neq"
                      THEN FilterOk(Node("$not", <<Leaf("eq", column, n.v)>>))
                      ELSE FilterOk(Leaf(operation, column, n.v))
             ELSE IF operation = "text"
             THEN IF Get(test, operation).t = "list"
                  THEN FilterOk(Leaf("$all", column, Get(test, operation)))
                  ELSE FilterOk(Leaf("eq", column, StrV(str(Get(test, operation)))))
             ELSE FilterFail(REQUEST_IMPROPERLY_FORMATTED)

\* dbfuncs.py 280-314
ColumnFilter(column, test, indices) ==
    IF Spell(column)[1] = "$" THEN FilterFail(REQUEST_IMPROPERLY_FORMATTED)
    ELSE IF column \notin Columns(indices) THEN FilterFail(ROW_HAS_EXTRA_INDEXED_VALUES)
    ELSE LET operation == get_sole_key(test)
             index_type == TypeOf(indices, column)
         IN  IF (operation = "text") # (index_type \in {"text", "unique_text"})
             THEN FilterFail(INVALID_INDEX_TYPE)
             ELSE IF operation = "" THEN FilterFail(REQUEST_IMPROPERLY_FORMATTED)
             ELSE IF operation \in {"eq", "neq", "lt", "gt", "lte", "gte"}
             THEN LET n == int(Get(test, operation))
                  IN  IF ~n.ok THEN FilterRaise
                      ELSE IF operation = "neq"
                      THEN FilterOk(Node("$not", <<Leaf("eq", column, n.v)>>))
                      ELSE FilterOk(Leaf(operation, column, n.v))
             ELSE IF operation = "text"
             THEN IF Get(test, operation).t = "list"
                  THEN FilterOk(Leaf("$all", column, Get(test, operation)))
                  ELSE FilterOk(Leaf("eq", column, StrV(str(Get(test, operation)))))
             ELSE FilterFail(REQUEST_IMPROPERLY_FORMATTED)

\* A compiler whose not_and is the $nor of its subqueries, as not_or is.
RECURSIVE process_received_query_filter_NorOfEach(_, _)
process_received_query_filter_NorOfEach(query, indices) ==
    LET sole_key == get_sole_key(query)
    IN  IF sole_key = "" THEN FilterFail(REQUEST_IMPROPERLY_FORMATTED)
        ELSE IF sole_key \in Combinators
        THEN LET subs == [i \in DOMAIN Get(query, sole_key) |->
                            process_received_query_filter_NorOfEach(Get(query, sole_key)[i], indices)]
                 bad == FirstBad(subs, 1)
                 subqueries == [i \in DOMAIN subs |-> subs[i].q]
             IN  IF bad # 0 THEN subs[bad]
                 ELSE CASE sole_key = "and" -> FilterOk(Node("$and", subqueries))
                        [] sole_key = "or" -> FilterOk(Node("$or", subqueries))
                        [] OTHER -> FilterOk(Node("$nor", subqueries))
        ELSE ColumnFilter(sole_key, Get(query, sole_key), indices)

\* dbfuncs.py 234-279
RECURSIVE process_received_query_filter(_, _)
process_received_query_filter(query, indices) ==
    LET sole_key == get_sole_key(query)
    IN  IF sole_key = "" THEN FilterFail(REQUEST_IMPROPERLY_FORMATTED)
        ELSE IF sole_key \in Combinators
        THEN LET subs == [i \in DOMAIN Get(query, sole_key) |->
                            process_received_query_filter(Get(query, sole_key)[i], indices)]
                 bad == FirstBad(subs, 1)
                 subqueries == [i \in DOMAIN subs |-> subs[i].q]
             IN  IF bad # 0 THEN subs[bad]
                 ELSE CASE sole_key = "and" -> FilterOk(Node("$and", subqueries))
                        [] sole_key = "or" -> FilterOk(Node("$or", subqueries))
                        [] sole_key = "not_and" ->
                               FilterOk(Node("$nor", <<Node("$and", subqueries)>>))
                        [] OTHER -> FilterOk(Node("$nor", subqueries))
        ELSE ColumnFilter(sole_key, Get(query, sole_key), indices)

\* The store rejects a query with $not in the place of a field name, and
\* $and, $or, $nor of no subquery (OperationFailure).
RECURSIVE ValidQuery(_)
ValidQuery(q) ==
    CASE q.kind = "$not" -> FALSE
      [] q.kind \in {"$and", "$or", "$nor"} ->
             /\ Len(q.subs) >= 1
             /\ \A i \in DOMAIN q.subs : ValidQuery(q.subs[i])
      [] OTHER -> TRUE

\* A value of a field compared with the integer of a query: only integers
\* compare with integers.
Compare(kind, x, v) ==
    /\ x.t = "int"
    /\ CASE kind = "lt" -> x.n < v.n
         [] kind = "gt" -> x.n > v.n
         [] kind = "lte" -> x.n <= v.n
         [] OTHER -> x.n >= v.n

\* Whether a stored document matches a valid compiled query.
RECURSIVE MatchesQuery(_, _)
MatchesQuery(doc, q) ==
    CASE q.kind = "eq" -> MatchesValue(doc, q.col, q.v)
      [] q.kind \in {"lt", "gt", "lte", "gte"} ->
             q.col \in DOMAIN doc.index /\ Compare(q.kind, doc.index[q.col], q.v)
      [] q.kind = "$all" ->
             /\ Len(q.v.l) >= 1
             /\ \A i \in DOMAIN q.v.l : MatchesValue(doc, q.col, StrV(q.v.l[i]))
      [] q.kind = "$and" -> \A i \in DOMAIN q.subs : MatchesQuery(doc, q.subs[i])
      [] q.kind = "$or" -> \E i \in DOMAIN q.subs : MatchesQuery(doc, q.subs[i])
      [] q.kind = "$nor" -> \A i \in DOMAIN q.subs : ~MatchesQuery(doc, q.subs[i])
      [] OTHER -> FALSE

-----------------------------------------------------------------------------
(* insert_datum (dbfuncs.py 137-186), one operator per stretch between awaits *)

\* dbfuncs.py 143-146: the request's indexed map, seeded from the existing row.
Seeded_RequestOnly(indexed, existing_row) == indexed
Seeded(indexed, existing_row) ==
    IF existing_row = NoDoc THEN indexed
    ELSE [c \in DOMAIN indexed \cup DOMAIN existing_row.index |->
            IF c \in DOMAIN indexed THEN indexed[c] ELSE existing_row.index[c]]

\* dbfuncs.py 150-167: the loop over the table's indices from position i on,
\* with indexed_data so far.  kind "ok": the stored cells; "fail": 303;
\* "raise": the KeyError of datum['indexed'][index_name] for a column that
\* neither the datum nor the stored row has, or the ValueError or TypeError
\* of int().
RECURSIVE CollectIndexed(_, _, _, _, _)
CollectIndexed(table_indices, i, indexed, existing_row, indexed_data) ==
    IF i > Len(table_indices)
    THEN [kind |-> "ok", code |-> 0, data |-> indexed_data, error |-> ""]
    ELSE LET index_name == table_indices[i].k
             index_type == table_indices[i].v
         IN  IF existing_row = NoDoc /\ index_name \notin DOMAIN indexed
             THEN [kind |-> "fail", code |-> ROW_LACKS_SOME_INDEXED_VALUES, data |-> <<>>,
                   error |-> ""]
             ELSE IF index_name \notin DOMAIN indexed
             THEN [kind |-> "raise", code |-> 0, data |-> <<>>, error |-> "KeyError"]
             ELSE LET cell == CellValue(index_type, indexed[index_name])
                  IN  IF ~cell.ok
                      THEN [kind |-> "raise", code |-> 0, data |-> <<>>, error |-> cell.error]
                      ELSE CollectIndexed(table_indices, i + 1, indexed, existing_row,
                                          Put(indexed_data, index_name, cell.v))

\* A task of insert_datum: where it is, its locals, whether it got as far as
\* its write, and what it returned.
NewTask(table, datum_id, datum) ==
    [pc |-> "find", table |-> table, datum_id |-> datum_id, datum |-> datum,
     existing_row |-> NoDoc, indexed_data |-> <<>>, pending |-> {},
     collided |-> FALSE, wrote |-> FALSE,
     result |-> [kind |-> "pending", res |-> FailureResult(0), error |-> ""]]

\* return datum_id, res
Returned(tk, res) ==
    [tk EXCEPT !.pc = "done", !.result = [kind |-> "return", res |-> res, error |-> ""]]

\* An exception leaves insert_datum.
Raised(tk, error) ==
    [tk EXCEPT !.pc = "done",
               !.result = [kind |-> "raise", res |-> FailureResult(0), error |-> error]]

TaskColl(tk) == collection_name(tk.table.owner, tk.table.name)

\* dbfuncs.py 164-172: the task has started a find_one for every unique
\* column (they are `pending`) and awaits them; without a unique column the
\* gather of nothing does not suspend and the task is at its write.
Looking(tk, existing_row, indexed_data) ==
    [tk EXCEPT !.pc = IF UniqueColumns(tk.table.indices) = {} THEN "write" ELSE "check",
               !.existing_row = existing_row,
               !.indexed_data = indexed_data,
               !.pending = UniqueColumns(tk.table.indices)]

\* insert_datum without the test of lines 169-170.
AfterFind_No304(tk, existing_row) ==
    LET indexed == Seeded(tk.datum.indexed, existing_row)
        got == CollectIndexed(tk.table.indices, 1, indexed, existing_row, <<>>)
    IN  IF got.kind = "fail" THEN Returned(tk, FailureResult(got.code))
        ELSE IF got.kind = "raise" THEN Raised(tk, got.error)
        ELSE Looking(tk, existing_row, got.data)

\* dbfuncs.py 142-170: from the find_one of the row to the gather of the
\* uniqueness lookups, given the row find_one returned.
AfterFind(tk, existing_row) ==
    LET indexed == Seeded(tk.datum.indexed, existing_row)
        got == CollectIndexed(tk.table.indices, 1, indexed, existing_row, <<>>)
    IN  IF got.kind = "fail" THEN Returned(tk, FailureResult(got.code))
        ELSE IF got.kind = "raise" THEN Raised(tk, got.error)
        ELSE IF \E k \in DOMAIN indexed : k \notin DOMAIN got.data
        THEN Returned(tk, FailureResult(ROW_HAS_EXTRA_INDEXED_VALUES))
        ELSE Looking(tk, existing_row, got.data)

\* dbfuncs.py 166: find_one({f'index.{col}': row_index_value}) on collection
\* c: some row holding the value, None without one.
UniqueLookup(tk, c, col) ==
    find_one({ d \in c.rows : MatchesValue(d, col, tk.indexed_data[col]) })

Collides_Never(tk, r) == FALSE

\* dbfuncs.py 173: r is not None and r['row_id'] != datum_id
Collides(tk, r) == r # NoDoc /\ r.row_id # tk.datum_id

\* dbfuncs.py 172-174: the lookup of column col returned r.  When it was the
\* last one pending, the gather is over and the datum fails with 302 if any
\* lookup returned a row with another row_id.
AfterLookup(tk, col, r) ==
    LET collided == tk.collided \/ Collides(tk, r)
        rest == tk.pending \ {col}
    IN  IF rest # {}
        THEN [tk EXCEPT !.pending = rest, !.collided = collided]
        ELSE IF collided
        THEN Returned([tk EXCEPT !.pending = rest, !.collided = collided],
                      FailureResult(ROW_SAME_UNIQUES_ALREADY_EXISTS))
        ELSE [tk EXCEPT !.pc = "write", !.pending = rest]

\* dbfuncs.py 176-186: the write.  id is a fresh new_db_id(); `matched` is the
\* row replace_one's filter {'row_id': datum_id} finds now.
NewDoc_FreshId(tk, id) == Doc(id, tk.datum_id, tk.indexed_data, str(tk.datum.extra))
NewDoc(tk, id) ==
    Doc(IF tk.existing_row # NoDoc THEN tk.existing_row.id ELSE id,
        tk.datum_id, tk.indexed_data, str(tk.datum.extra))

WriteDatum(tk, c, id, matched) ==
    IF tk.existing_row # NoDoc
    THEN replace_one(c, matched, NewDoc(tk, id))
    ELSE insert_one(c, NewDoc(tk, id))

-----------------------------------------------------------------------------
(* Sessions running row commands against the store (dbfuncs.py) *)

\* The sessions; each is logged in as user "a".
Sessions == {1, 2}
Owner == <<"a">>

\* One more session, logged in as user "a_b".
Guest == 3
GuestOwner == <<"a", "_", "b">>

\* A third session logged in as user "a".
Late == 4

\* The username handshake() returned to index() for the session.
OwnerOf(s) == IF s = Guest THEN GuestOwner ELSE Owner

RowIds == {"r1", "r2"}

\* The table specs a create_table command carries: a table with a unique and
\* a unique_text column, and one whose index name the regex refuses.
TableName == <<"t">>
TableSpecs ==
    { [name |-> TableName,
       indices |-> <<IndexPair("u", "unique"), IndexPair("w", "unique_text")>>],
      [name |-> TableName, indices |-> <<IndexPair("U", "unique")>>] }

\* The data an insert_data command carries for a row.
Datum(indexed, extra) == [indexed |-> indexed, extra |-> extra]
Cells(u, w) == [c \in {"u", "w"} |-> IF c = "u" THEN u ELSE w]
OnlyU(u) == [c \in {"u"} |-> u]

\* Two data that collide with nothing of each other, and data that collide
\* with them only once stored: "1" is stored as 1, and a list of words has
\* each of its words as a key.
Plain == Datum(Cells(IntV(1), StrV("p")), StrV("e"))
Other == Datum(Cells(IntV(MaxInt), StrV("q")), IntV(1))
Coerced == Datum(Cells(StrV("1"), ListV(<<"q", "r">>)), StrV("e"))
Data ==
    { Plain, Other, Coerced,
      Datum(OnlyU(IntV(MaxInt)), StrV("e")),                  \* a partial update
      Datum(Cells(StrV("x"), StrV("p")), StrV("e")),          \* int("x") raises
      Datum(Put(Cells(IntV(1), StrV("p")), "z", IntV(1)), StrV("e")) }  \* an extra cell

\* command['data']: a datum for each of some row ids.
Batches ==
    [{"r1"} -> Data] \cup [{"r2"} -> {Plain, Other}]
    \cup { [r \in RowIds |-> Plain],
           [r \in RowIds |-> IF r = "r1" THEN Coerced ELSE Other] }

\* command['filter'] of delete_data
ColTest(column, op, arg) == <<[k |-> column, v |-> <<[k |-> op, v |-> arg]>>]>>
Filters ==
    { <<>>,
      ColTest("u", "gte", StrV("1")),
      ColTest("u", "neq", IntV(1)),
      <<[k |-> "or", v |-> <<ColTest("u", "lt", IntV(MaxInt)),
                             ColTest("w", "text", ListV(<<"q", "r">>))>>]>> }

\* Commands the sessions start, all together.
MaxRowCmds == 3

NoReply == [none |-> TRUE]

\* A session between two commands, having sent `reply` last: it holds no
\* table, no pending store operation and no argument of a command.
Rest(reply) ==
    [state |-> "idle", reply |-> reply, table |-> NoTable, pending |-> {}, arg |-> <<>>]

InitStore ==
    /\ tables = {}
    /\ colls = <<>>
    /\ next_id = 0
    /\ sess = [s \in Sessions \cup {Guest, Late} |-> Rest(NoReply)]
    /\ tasks = <<>>
    /\ started = 0

\* A session between two commands that may start another.
Idle(s) == sess[s].state = "idle" /\ started < MaxRowCmds

\* process_command returned `msg`, which index() sends.
Replied(s, msg) == [sess EXCEPT ![s] = Rest(msg)]

\* An exception left process_command and index(): the session is over and
\* nothing is sent.
Ended(s) ==
    [sess EXCEPT ![s] = [state |-> "ended", reply |-> sess[s].reply, table |-> NoTable,
                         pending |-> {}, arg |-> <<>>]]

\* A session inside a command, suspended at an await: the catalog entry it
\* read or made, the store operations it has started and not seen return,
\* and the argument of the command it still needs.
Within(s, pc, table, pending, arg) ==
    [sess EXCEPT ![s] = [state |-> pc, reply |-> sess[s].reply, table |-> table,
                         pending |-> pending, arg |-> arg]]

TasksOf(s) == { key \in DOMAIN tasks : key[1] = s }

\* ---- create_table (dbfuncs.py 96-134), one action per store operation

\* db.tables.insert_one(new_table): the unique index on (name, owner) of
\* server.py 11 refuses a second entry of the pair (DuplicateKeyError).
CatalogRefuses(new_table) ==
    \E t \in tables : t.name = new_table.name /\ t.owner = new_table.owner

\* dbfuncs.py 96-116: create_table up to its insert_one.
CreateFind(s, table_spec) ==
    /\ Idle(s)
    /\ LET bad == \E i \in DOMAIN table_spec.indices :
                      \/ ~validate_index_name(table_spec.indices[i].k)
                      \/ ~validate_index_type(table_spec.indices[i].v)
           new_table == [name |-> table_spec.name, owner |-> OwnerOf(s),
                         indices |-> table_spec.indices]
       IN  sess' = IF FindTable(OwnerOf(s), table_spec.name) # {}
                   THEN Replied(s, empty_result_to_json(FailureResult(TABLE_ALREADY_EXISTS)))
                   ELSE IF bad
                   THEN Replied(s, empty_result_to_json(
                                       FailureResult(REQUEST_IMPROPERLY_FORMATTED)))
                   ELSE Within(s, "insert_table", new_table, {}, <<>>)
    /\ started' = started + 1
    /\ UNCHANGED <<tables, colls, next_id, tasks>>
    /\ UNCHANGED notStore

\* dbfuncs.py 118-130: the insert_one into the catalog, and the start of the
\* index creations.  Nothing catches the DuplicateKeyError of insert_one,
\* which leaves create_table, process_command and index().
CreateInsert(s) ==
    /\ sess[s].state = "insert_table"
    /\ IF CatalogRefuses(sess[s].table)
       THEN /\ sess' = Ended(s)
            /\ UNCHANGED tables
       ELSE /\ tables' = tables \cup {sess[s].table}
            /\ sess' = Within(s, "create_index", sess[s].table,
                              IndexCreations(sess[s].table.indices), <<>>)
    /\ UNCHANGED <<colls, next_id, tasks, started>>
    /\ UNCHANGED notStore

\* dbfuncs.py 121-134 with process_command 437-439: the store runs one of the
\* index creations.  gather raises the first failure at once, which leaves
\* create_table, process_command and index() while the creations still
\* pending run on; when the last one returned and none failed, create_table
\* returns.
CreateIndex(s, field) ==
    /\ sess[s].state \in {"create_index", "ended"}
    /\ field \in sess[s].pending
    /\ LET new_table == sess[s].table
           name == collection_name(new_table.owner, new_table.name)
           built == BuildIndex(Coll(name), new_table.indices, field)
           rest == sess[s].pending \ {field}
       IN  /\ colls' = Put(colls, name, built.coll)
           /\ sess' = IF sess[s].state = "ended"
                      THEN [sess EXCEPT ![s].pending = rest]
                      ELSE IF ~built.ok
                      THEN [sess EXCEPT ![s].state = "ended", ![s].pending = rest]
                      ELSE IF rest = {}
                      THEN Replied(s, empty_result_to_json(SuccessResult(NoneV)))
                      ELSE [sess EXCEPT ![s].pending = rest]
    /\ UNCHANGED <<tables, next_id, tasks, started>>
    /\ UNCHANGED notStore

\* ---- insert_data (dbfuncs.py 189-201) and its tasks (dbfuncs.py 137-186)

\* dbfuncs.py 189-199: insert_data up to its gather.
StartInsert(s, table_name, data) ==
    /\ Idle(s)
    /\ LET found == FindTable(OwnerOf(s), table_name)
           rest == tasks
       IN  IF found = {}
           THEN /\ sess' = Replied(s, [results |->
                              [k \in DOMAIN data |->
                                 empty_result_to_json(FailureResult(TABLE_DOES_NOT_EXIST))]])
                /\ UNCHANGED tasks
           ELSE \E table \in found :
                /\ sess' = [sess EXCEPT ![s].state = "insert"]
                /\ tasks' = [key \in DOMAIN rest \cup { <<s, k>> : k \in DOMAIN data } |->
                               IF key \in DOMAIN rest THEN rest[key]
                               ELSE NewTask(table, key[2], data[key[2]])]
    /\ UNCHANGED <<tables, colls, next_id>>
    /\ started' = started + 1
    /\ UNCHANGED notStore

\* dbfuncs.py 142-170: a task runs from its start to the gather of its
\* uniqueness lookups.
TaskFind(key) ==
    /\ key \in DOMAIN tasks
    /\ tasks[key].pc = "find"
    /\ \E existing_row \in find_one(ByRowId(Coll(TaskColl(tasks[key])),
                                            tasks[key].datum_id)) :
           tasks' = [tasks EXCEPT ![key] = AfterFind(@, existing_row)]
    /\ UNCHANGED <<tables, colls, next_id, sess>>
    /\ UNCHANGED started
    /\ UNCHANGED notStore

\* dbfuncs.py 166, 172-174: the store runs the lookup of one unique column.
TaskLookup(key, col) ==
    /\ key \in DOMAIN tasks
    /\ tasks[key].pc = "check"
    /\ col \in tasks[key].pending
    /\ \E r \in UniqueLookup(tasks[key], Coll(TaskColl(tasks[key])), col) :
           tasks' = [tasks EXCEPT ![key] = AfterLookup(@, col, r)]
    /\ UNCHANGED <<tables, colls, next_id, sess>>
    /\ UNCHANGED started
    /\ UNCHANGED notStore

\* dbfuncs.py 176-186
TaskWrite(key) ==
    /\ key \in DOMAIN tasks
    /\ tasks[key].pc = "write"
    /\ LET c == Coll(TaskColl(tasks[key]))
       IN  \E matched \in find_one(ByRowId(c, tasks[key].datum_id)) :
               LET written_ == WriteDatum(tasks[key], c, next_id + 1, matched)
               IN  /\ colls' = Put(colls, TaskColl(tasks[key]), written_.coll)
                   /\ tasks' = [tasks EXCEPT ![key] =
                                   IF written_.ok
                                   THEN Returned([@ EXCEPT !.wrote = TRUE], SuccessResult(NoneV))
                                   ELSE Raised([@ EXCEPT !.wrote = TRUE], written_.error)]
    /\ next_id' = IF tasks[key].existing_row = NoDoc THEN next_id + 1 ELSE next_id
    /\ UNCHANGED <<tables, sess>>
    /\ UNCHANGED started
    /\ UNCHANGED notStore

\* dbfuncs.py 201 with process_command 441-442: every task returned.
FinishInsert(s) ==
    /\ sess[s].state = "insert"
    /\ \A key \in TasksOf(s) : tasks[key].result.kind = "return"
    /\ sess' = [sess EXCEPT ![s].state = "idle",
                            ![s].reply = [results |->
                                [k \in { key[2] : key \in TasksOf(s) } |->
                                    empty_result_to_json(tasks[<<s, k>>].result.res)]]]
    /\ tasks' = [key \in DOMAIN tasks \ TasksOf(s) |-> tasks[key]]
    /\ UNCHANGED <<tables, colls, next_id>>
    /\ UNCHANGED started
    /\ UNCHANGED notStore

\* dbfuncs.py 201: gather raises the first exception of a task; it leaves
\* insert_data, process_command and index().  The other tasks run on.
InsertRaises(s) ==
    /\ sess[s].state = "insert"
    /\ \E key \in TasksOf(s) : tasks[key].result.kind = "raise"
    /\ sess' = [sess EXCEPT ![s].state = "ended"]
    /\ UNCHANGED <<tables, colls, next_id, tasks>>
    /\ UNCHANGED started
    /\ UNCHANGED notStore

\* ---- delete_by_id (dbfuncs.py 383-397)

\* dbfuncs.py 383-391: delete_by_id up to its delete_one.
DeleteByIdFind(s, table_name, row_id) ==
    /\ Idle(s)
    /\ LET found == FindTable(OwnerOf(s), table_name)
       IN  IF found = {}
           THEN sess' = Replied(s, empty_result_to_json(FailureResult(TABLE_DOES_NOT_EXIST)))
           ELSE \E table \in found :
                    sess' = Within(s, "delete_by_id", table, {}, row_id)
    /\ started' = started + 1
    /\ UNCHANGED <<tables, colls, next_id, tasks>>
    /\ UNCHANGED notStore

\* dbfuncs.py 393-397 with process_command 449-451: delete_one({'row_id': ...})
\* removes some row with the row_id, and deleted_count tells whether it did.
DeleteByIdOne(s) ==
    /\ sess[s].state = "delete_by_id"
    /\ LET name == collection_name(sess[s].table.owner, sess[s].table.name)
           c == Coll(name)
       IN  \E doc \in find_one(ByRowId(c, sess[s].arg)) :
               IF doc = NoDoc
               THEN /\ sess' = Replied(s, empty_result_to_json(
                                              FailureResult(ROW_DOES_NOT_EXIST)))
                    /\ UNCHANGED colls
               ELSE /\ sess' = Replied(s, empty_result_to_json(SuccessResult(NoneV)))
                    /\ colls' = Put(colls, name, [c EXCEPT !.rows = @ \ {doc}])
    /\ UNCHANGED <<tables, next_id, tasks, started>>
    /\ UNCHANGED notStore

\* ---- delete_data (dbfuncs.py 400-417)

\* dbfuncs.py 400-414: delete_data up to its delete_many: the read of the
\* catalog and the compilation of the filter, which may fail or raise
\* (ValueError of int()).
DeleteDataFind(s, table_name, query) ==
    /\ Idle(s)
    /\ LET found == FindTable(OwnerOf(s), table_name)
       IN  IF found = {}
           THEN sess' = Replied(s, result_to_json(FailureResult(TABLE_DOES_NOT_EXIST), "count"))
           ELSE \E table \in found :
                LET find_query == process_received_query_filter(query, table.indices)
                IN  sess' = IF find_query.kind = "fail"
                            THEN Replied(s, result_to_json(FailureResult(find_query.code),
                                                           "count"))
                            ELSE IF find_query.kind = "raise"
                            THEN Ended(s)
                            ELSE Within(s, "delete_data", table, {}, query)
    /\ started' = started + 1
    /\ UNCHANGED <<tables, colls, next_id, tasks>>
    /\ UNCHANGED notStore

\* dbfuncs.py 416-417 with process_command 452-454: delete_many(find_query),
\* which the store refuses for a query it finds invalid (OperationFailure).
DeleteDataMany(s) ==
    /\ sess[s].state = "delete_data"
    /\ LET name == collection_name(sess[s].table.owner, sess[s].table.name)
           c == Coll(name)
           find_query == process_received_query_filter(sess[s].arg, sess[s].table.indices)
           gone == { d \in c.rows : MatchesQuery(d, find_query.q) }
       IN  IF ~ValidQuery(find_query.q)
           THEN /\ sess' = Ended(s)
                /\ UNCHANGED colls
           ELSE /\ sess' = Replied(s, result_to_json(
                                          SuccessResult(CountV(Cardinality(gone))), "count"))
                /\ colls' = Put(colls, name, [c EXCEPT !.rows = @ \ gone])
    /\ UNCHANGED <<tables, next_id, tasks, started>>
    /\ UNCHANGED notStore

\* ---- query_data (dbfuncs.py 317-380)

\* dbfuncs.py 317-336: the sort list from position i on, with the compiled
\* keys so far.  A key is a column with its direction.
RECURSIVE process_received_query_order(_, _, _, _)
process_received_query_order(order, indices, i, sort) ==
    IF i > Len(order) THEN [kind |-> "ok", code |-> 0, sort |-> sort]
    ELSE LET column == order[i][1]
             col_order == order[i][2]
         IN  IF Spell(column)[1] = "$"
             THEN [kind |-> "fail", code |-> REQUEST_IMPROPERLY_FORMATTED, sort |-> <<>>]
             ELSE IF column \notin Columns(indices)
             THEN [kind |-> "fail", code |-> ROW_HAS_EXTRA_INDEXED_VALUES, sort |-> <<>>]
             ELSE IF TypeOf(indices, column) \in {"text", "unique_text"}
             THEN [kind |-> "fail", code |-> INVALID_INDEX_TYPE, sort |-> <<>>]
             ELSE IF col_order \notin {"asc", "desc"}
             THEN [kind |-> "fail", code |-> REQUEST_IMPROPERLY_FORMATTED, sort |-> <<>>]
             ELSE process_received_query_order(order, indices, i + 1,
                                               Append(sort, <<column, col_order>>))

\* cursor.sort(sort): document d1 must come before d2 (keys from i on).
RECURSIVE SortsBefore(_, _, _, _)
SortsBefore(d1, d2, sort, i) ==
    IF i > Len(sort) THEN FALSE
    ELSE LET a == d1.index[sort[i][1]].n
             b == d2.index[sort[i][1]].n
         IN  IF a = b THEN SortsBefore(d1, d2, sort, i + 1)
             ELSE IF sort[i][2] = "asc" THEN a < b ELSE a > b

\* A cursor that ignores the sort.
Cursors_Unsorted(docs, sort) ==
    { cursor \in [1..Cardinality(docs) -> docs] :
        \A i, j \in DOMAIN cursor : i # j => cursor[i] # cursor[j] }

\* The orders in which a cursor over `docs` may hand them out: every order
\* the sort allows (any order without a sort, or among equal keys).
Cursors(docs, sort) ==
    { cursor \in [1..Cardinality(docs) -> docs] :
        /\ \A i, j \in DOMAIN cursor : i # j => cursor[i] # cursor[j]
        /\ \A i, j \in DOMAIN cursor :
               i < j => ~SortsBefore(cursor[j], cursor[i], sort, 1) }

\* dbfuncs.py 371-374
RowEntry(row) == [row_id |-> row.row_id, indexed |-> row.index, extra |-> row.extra]

\* rows[row_id] = entry (dbfuncs.py 374): a row_id the dict holds keeps its
\* place and takes the new entry, a new one is added at the end.
SetRow(rows, entry) ==
    IF \E k \in DOMAIN rows : rows[k].row_id = entry.row_id
    THEN [k \in DOMAIN rows |-> IF rows[k].row_id = entry.row_id THEN entry ELSE rows[k]]
    ELSE Append(rows, entry)

\* dbfuncs.py 370-378: the loop over the cursor from position i on; len(rows)
\* counts the row ids of the dict.
RECURSIVE Consume(_, _, _, _)
Consume(cursor, i, rows, row_limit) ==
    IF i > Len(cursor) THEN rows
    ELSE LET added == SetRow(rows, RowEntry(cursor[i]))
         IN  IF row_limit.t # "none" /\ Len(added) >= row_limit.n
             THEN added
             ELSE Consume(cursor, i + 1, added, row_limit)

\* command['query']
Query(filter, sort, limit) == [filter |-> filter, sort |-> sort, limit |-> limit]

\* query['limit'] as dbfuncs.py 366-368 reads it: None, or int(limit), which
\* may raise.
RowLimit(query) ==
    IF query.limit.t = "none" THEN [ok |-> TRUE, v |-> NoneV, error |-> ""]
    ELSE int(query.limit)

\* dbfuncs.py 339-368: query_data up to the first read of its cursor: the
\* read of the catalog, the compilation of filter and sort, which may fail or
\* raise, and int(limit), which may raise.
QueryDataFind(s, table_name, query) ==
    /\ Idle(s)
    /\ LET found == FindTable(OwnerOf(s), table_name)
       IN  IF found = {}
           THEN sess' = Replied(s, result_to_json(FailureResult(TABLE_DOES_NOT_EXIST), "data"))
           ELSE \E table \in found :
                LET find_query == process_received_query_filter(query.filter, table.indices)
                    sort_query == process_received_query_order(query.sort, table.indices,
                                                               1, <<>>)
                IN  sess' = IF find_query.kind = "fail"
                            THEN Replied(s, result_to_json(FailureResult(find_query.code),
                                                           "data"))
                            ELSE IF find_query.kind = "raise"
                            THEN Ended(s)
                            ELSE IF sort_query.kind = "fail"
                            THEN Replied(s, result_to_json(FailureResult(sort_query.code),
                                                           "data"))
                            ELSE IF ~RowLimit(query).ok
                            THEN Ended(s)
                            ELSE Within(s, "query_data", table, {}, query)
    /\ started' = started + 1
    /\ UNCHANGED <<tables, colls, next_id, tasks>>
    /\ UNCHANGED notStore

\* dbfuncs.py 370-380 with process_command 446-448: the cursor is read, which
\* the store refuses for a query it finds invalid (OperationFailure).
QueryDataRows(s) ==
    /\ sess[s].state = "query_data"
    /\ LET table == sess[s].table
           query == sess[s].arg
           c == Coll(collection_name(table.owner, table.name))
           find_query == process_received_query_filter(query.filter, table.indices)
           sort_query == process_received_query_order(query.sort, table.indices, 1, <<>>)
           docs == { d \in c.rows : MatchesQuery(d, find_query.q) }
       IN  IF ~ValidQuery(find_query.q)
           THEN sess' = Ended(s)
           ELSE \E cursor \in Cursors(docs, sort_query.sort) :
                    sess' = Replied(s, result_to_json(
                               SuccessResult(RowsV(Consume(cursor, 1, <<>>,
                                                           RowLimit(query).v))),
                               "data"))
    /\ UNCHANGED <<tables, colls, next_id, tasks, started>>
    /\ UNCHANGED notStore

\* ---- query_by_id (dbfuncs.py 204-220)

\* dbfuncs.py 218-220: {'indexed': indexed, 'extra': extra}, a dict of two keys.
RowV(row) == [t |-> "dict", n |-> 2, rows |-> [indexed |-> row.index, extra |-> row.extra]]

\* dbfuncs.py 204-212: query_by_id up to its find_one of the row.
QueryByIdFind(s, table_name, row_id) ==
    /\ Idle(s)
    /\ LET found == FindTable(OwnerOf(s), table_name)
       IN  IF found = {}
           THEN sess' = Replied(s, result_to_json(FailureResult(TABLE_DOES_NOT_EXIST), "row"))
           ELSE \E table \in found :
                    sess' = Within(s, "query_by_id", table, {}, row_id)
    /\ started' = started + 1
    /\ UNCHANGED <<tables, colls, next_id, tasks>>
    /\ UNCHANGED notStore

\* dbfuncs.py 214-220 with process_command 443-445
QueryByIdRow(s) ==
    /\ sess[s].state = "query_by_id"
    /\ LET table == sess[s].table
       IN  \E row \in find_one(ByRowId(Coll(collection_name(table.owner, table.name)),
                                        sess[s].arg)) :
               sess' = IF row = NoDoc
                       THEN Replied(s, result_to_json(FailureResult(ROW_DOES_NOT_EXIST),
                                                      "row"))
                       ELSE Replied(s, result_to_json(SuccessResult(RowV(row)), "row"))
    /\ UNCHANGED <<tables, colls, next_id, tasks, started>>
    /\ UNCHANGED notStore

\* ---- drop_table (dbfuncs.py 420-433)

\* A drop that leaves the collection as it is.
drop_collection_Keep(c) == c

\* db.drop_collection(name): the collection is gone, rows and indexes.
drop_collection(c) == EmptyColl

\* A session inside drop_table: the table it found and which of its two
\* store operations are still to run.
Dropping(s, table, pending) == Within(s, "drop", table, pending, <<>>)

\* dbfuncs.py 420-429: drop_table up to the start of its two store operations.
DropFind(s, table_name) ==
    /\ Idle(s)
    /\ LET found == FindTable(OwnerOf(s), table_name)
       IN  IF found = {}
           THEN sess' = Replied(s, empty_result_to_json(FailureResult(TABLE_DOES_NOT_EXIST)))
           ELSE \E table \in found :
                    sess' = Dropping(s, table, {"collection", "entry"})
    /\ started' = started + 1
    /\ UNCHANGED <<tables, colls, next_id, tasks>>
    /\ UNCHANGED notStore

\* dbfuncs.py 429, 431: the drop of the collection f"{owner}_{table['name']}",
\* started before delete_one and awaited after it.
DropCollection(s) ==
    /\ sess[s].state = "drop"
    /\ "collection" \in sess[s].pending
    /\ LET name == collection_name(sess[s].table.owner, sess[s].table.name)
       IN  colls' = Put(colls, name, drop_collection(Coll(name)))
    /\ sess' = Dropping(s, sess[s].table, sess[s].pending \ {"collection"})
    /\ UNCHANGED <<tables, next_id, tasks, started>>
    /\ UNCHANGED notStore

\* dbfuncs.py 430: db.tables.delete_one({'name': table_name, 'owner': owner})
DropEntry(s) ==
    /\ sess[s].state = "drop"
    /\ "entry" \in sess[s].pending
    /\ tables' = tables \ FindTable(sess[s].table.owner, sess[s].table.name)
    /\ sess' = Dropping(s, sess[s].table, sess[s].pending \ {"entry"})
    /\ UNCHANGED <<colls, next_id, tasks, started>>
    /\ UNCHANGED notStore

\* dbfuncs.py 433 with process_command 455-457
DropReturn(s) ==
    /\ sess[s].state = "drop"
    /\ sess[s].pending = {}
    /\ sess' = Replied(s, empty_result_to_json(SuccessResult(NoneV)))
    /\ UNCHANGED <<tables, colls, next_id, tasks, started>>
    /\ UNCHANGED notStore

-----------------------------------------------------------------------------
(* Two sessions of one owner running row commands at once *)

\* The fields an index creation may be for, and the columns a uniqueness
\* lookup may be for, over the tables of every scenario.
IndexFields == {"row_id", "s", "u", "w", "x_1", "z"}
LookupFields == {"u", "w", "z"}

NextStore ==
    \/ \E s \in Sessions, table_spec \in TableSpecs : CreateFind(s, table_spec)
    \/ \E s \in Sessions : CreateInsert(s)
    \/ \E s \in Sessions, field \in IndexFields : CreateIndex(s, field)
    \/ \E s \in Sessions, data \in Batches : StartInsert(s, TableName, data)
    \/ \E key \in Sessions \X RowIds : TaskFind(key)
    \/ \E key \in Sessions \X RowIds, col \in LookupFields : TaskLookup(key, col)
    \/ \E key \in Sessions \X RowIds : TaskWrite(key)
    \/ \E s \in Sessions : FinishInsert(s)
    \/ \E s \in Sessions : InsertRaises(s)
    \/ \E s \in Sessions, row_id \in RowIds : DeleteByIdFind(s, TableName, row_id)
    \/ \E s \in Sessions : DeleteByIdOne(s)
    \/ \E s \in Sessions, query \in Filters : DeleteDataFind(s, TableName, query)
    \/ \E s \in Sessions : DeleteDataMany(s)

-----------------------------------------------------------------------------
(* One session running its commands one after another *)

Solo == 1

\* command['data'] of the session's insert_data commands.
SeqBatches ==
    [{"r1"} -> Data] \cup [{"r2"} -> {Plain, Other}]
    \cup { [r \in RowIds |-> IF r = "r1" THEN Plain ELSE Other],
           [r \in {"r1"} |-> Datum(OnlyU(IntV(0)), IntV(1))],
           [r \in {"r1"} |-> Datum(OnlyU(StrV("x")), StrV("e"))] }

\* command['query'] of the session's query_data commands.
Queries ==
    { Query(<<>>, <<>>, NoneV),
      Query(ColTest("u", "gte", StrV("1")), <<>>, NoneV),
      Query(ColTest("u", "gte", IntV(1)), << <<"u", "desc">> >>, IntV(0)),
      Query(ColTest("u", "gte", IntV(1)), << <<"u", "asc">> >>, IntV(1)),
      Query(ColTest("w", "text", StrV("q")), << <<"w", "asc">> >>, NoneV),
      Query(<<[k |-> "not_and", v |-> <<ColTest("u", "lt", IntV(MaxInt)),
                                        ColTest("w", "text", ListV(<<"q">>))>>]>>,
            << <<"u", "desc">> >>, NoneV) }

\* command of the session's create_table commands: those of TableSpecs and
\* one that declares column u alone, as a sort column.
SeqTableSpecs ==
    TableSpecs \cup { [name |-> TableName, indices |-> <<IndexPair("u", "sort")>>] }

NextSeq ==
    \/ \E table_spec \in SeqTableSpecs : CreateFind(Solo, table_spec)
    \/ CreateInsert(Solo)
    \/ \E field \in IndexFields : CreateIndex(Solo, field)
    \/ \E data \in SeqBatches : StartInsert(Solo, TableName, data)
    \/ \E key \in {Solo} \X RowIds : TaskFind(key)
    \/ \E key \in {Solo} \X RowIds, col \in LookupFields : TaskLookup(key, col)
    \/ \E key \in {Solo} \X RowIds : TaskWrite(key)
    \/ FinishInsert(Solo)
    \/ InsertRaises(Solo)
    \/ \E row_id \in RowIds : DeleteByIdFind(Solo, TableName, row_id)
    \/ DeleteByIdOne(Solo)
    \/ \E query \in Filters : DeleteDataFind(Solo, TableName, query)
    \/ DeleteDataMany(Solo)
    \/ \E query \in Queries : QueryDataFind(Solo, TableName, query)
    \/ QueryDataRows(Solo)
    \/ \E row_id \in RowIds : QueryByIdFind(Solo, TableName, row_id)
    \/ QueryByIdRow(Solo)
    \/ DropFind(Solo, TableName)
    \/ DropCollection(Solo)
    \/ DropEntry(Solo)
    \/ DropReturn(Solo)

-----------------------------------------------------------------------------
(* One session filling and querying a table with two sortable columns *)

SortTableName == <<"v">>
SortTable ==
    [name |-> SortTableName,
     indices |-> <<IndexPair("s", "sort"), IndexPair("z", "unique")>>]

SortRowIds == {"r1", "r2", "r3"}

\* The value of column z in each row of a batch.
ZOf(r) == CASE r = "r1" -> MaxInt [] r = "r2" -> 0 [] OTHER -> 1

\* command['data']: three rows whose s is 0 or 1, so that rows tie on s, and
\* whose z differ.
SortBatches ==
    { [r \in SortRowIds |->
          Datum([c \in {"s", "z"} |-> IF c = "s" THEN IntV(sv[r]) ELSE IntV(ZOf(r))],
                StrV("e"))] : sv \in [SortRowIds -> {0, 1}] }

\* command['query']['sort']
Sorts ==
    { << <<"z", "asc">> >>, << <<"z", "desc">> >>, << <<"s", "desc">> >>,
      << <<"s", "asc">>, <<"z", "desc">> >>,
      << <<"s", "desc">>, <<"z", "asc">> >> }

\* command['query']
SortQueries ==
    { Query(f, sort, limit) :
        f \in { ColTest("z", "gte", IntV(0)), ColTest("z", "lt", IntV(MaxInt)) },
        sort \in Sorts,
        limit \in {NoneV, IntV(2)} }

NextSort ==
    \/ CreateFind(Solo, SortTable)
    \/ CreateInsert(Solo)
    \/ \E field \in IndexFields : CreateIndex(Solo, field)
    \/ \E data \in SortBatches : StartInsert(Solo, SortTableName, data)
    \/ \E key \in {Solo} \X SortRowIds : TaskFind(key)
    \/ \E key \in {Solo} \X SortRowIds, col \in LookupFields : TaskLookup(key, col)
    \/ \E key \in {Solo} \X SortRowIds : TaskWrite(key)
    \/ FinishInsert(Solo)
    \/ \E query \in SortQueries : QueryDataFind(Solo, SortTableName, query)
    \/ QueryDataRows(Solo)

-----------------------------------------------------------------------------
(* Sessions whose create_table commands interleave at their awaits *)

\* The sessions that race, and those with a third session of the user.
Racers == {1, 2}
Clients == Racers \cup {Late}

\* command['data'] of the racing sessions' insert_data commands.
RaceBatches == [{"r1"} -> {Plain, Other}]

NextCatalog ==
    \/ \E s \in Clients, table_spec \in SeqTableSpecs : CreateFind(s, table_spec)
    \/ \E s \in Clients : CreateInsert(s)
    \/ \E s \in Clients, field \in IndexFields : CreateIndex(s, field)
    \/ \E s \in Clients, data \in RaceBatches : StartInsert(s, TableName, data)
    \/ \E key \in Clients \X RowIds : TaskFind(key)
    \/ \E key \in Clients \X RowIds, col \in LookupFields : TaskLookup(key, col)
    \/ \E key \in Clients \X RowIds : TaskWrite(key)
    \/ \E s \in Clients : FinishInsert(s)
    \/ \E s \in Clients : InsertRaises(s)

-----------------------------------------------------------------------------
(* Sessions of two users whose tables share a collection name *)

\* The two users' sessions: user "a" and user "a_b".
Tenants == {1, Guest}

\* The table name each of them sends: "b_t" for user "a", "t" for user "a_b".
OwnerTableName == <<"b", "_", "t">>
TableOf(s) == IF s = Guest THEN TableName ELSE OwnerTableName

\* The create_table requests of a session, for its own table name.
TenantSpecs(s) == { [table_spec EXCEPT !.name = TableOf(s)] : table_spec \in SeqTableSpecs }

\* command['data'] of their insert_data commands; int("x") raises ValueError.
TenantBatches ==
    RaceBatches \cup { [r \in {"r1"} |-> Datum(Cells(StrV("x"), StrV("p")), StrV("e"))] }

NextOwners ==
    \/ \E s \in Tenants : \E table_spec \in TenantSpecs(s) : CreateFind(s, table_spec)
    \/ \E s \in Tenants : CreateInsert(s)
    \/ \E s \in Tenants, field \in IndexFields : CreateIndex(s, field)
    \/ \E s \in Tenants, data \in TenantBatches : StartInsert(s, TableOf(s), data)
    \/ \E key \in Tenants \X RowIds : TaskFind(key)
    \/ \E key \in Tenants \X RowIds, col \in LookupFields : TaskLookup(key, col)
    \/ \E key \in Tenants \X RowIds : TaskWrite(key)
    \/ \E s \in Tenants : FinishInsert(s)
    \/ \E s \in Tenants : InsertRaises(s)
    \/ \E s \in Tenants, row_id \in RowIds : QueryByIdFind(s, TableOf(s), row_id)
    \/ \E s \in Tenants : QueryByIdRow(s)
    \/ \E s \in Tenants, row_id \in RowIds : DeleteByIdFind(s, TableOf(s), row_id)
    \/ \E s \in Tenants : DeleteByIdOne(s)

-----------------------------------------------------------------------------
(* One session whose filters test every operator on every type of column *)

\* A table with a column of each index type.
FilterTableName == <<"f">>
FilterTable ==
    [name |-> FilterTableName,
     indices |-> <<IndexPair("s", "sort"), IndexPair("u", "unique"),
                   IndexPair("x_1", "text"), IndexPair("w", "unique_text")>>]

FilterCells(n, word) ==
    [c \in {"s", "u", "x_1", "w"} |-> IF c \in {"s", "u"} THEN IntV(n) ELSE StrV(word)]

\* command['data'] of the session's insert_data commands.
FilterBatches ==
    { [r \in {"r1"} |-> Datum(FilterCells(1, "p"), StrV("e"))],
      [r \in {"r2"} |-> Datum(FilterCells(MaxInt, "q"), StrV("e"))],
      [r \in RowIds |-> IF r = "r1" THEN Datum(FilterCells(1, "p"), StrV("e"))
                                    ELSE Datum(FilterCells(MaxInt, "q"), StrV("e"))] }

\* The operators of a column test, and one the server does not know.
NumericOperators == {"eq", "neq", "lt", "lte", "gt", "gte"}
Operators == NumericOperators \cup {"text"}

\* command['filter']: every operator on every column, with an integer and
\* with a word as its argument.
LeafFilters ==
    { ColTest(column, op, arg) :
        column \in Columns(FilterTable.indices), op \in Operators \cup {"like"},
        arg \in {IntV(1), StrV("p")} }

\* A filter node {key: [children]}.
Group(key, children) == <<[k |-> key, v |-> children]>>

\* Leaves for the children of the groups: two that compile, a neq leaf, and
\* one whose operator does not fit its column.
SomeLeaves ==
    { ColTest("s", "lt", IntV(MaxInt)), ColTest("w", "text", StrV("q")),
      ColTest("u", "neq", IntV(1)), ColTest("s", "text", IntV(1)) }
Children ==
    {<<>>} \cup { <<x>> : x \in SomeLeaves } \cup { <<x, y>> : x \in SomeLeaves, y \in SomeLeaves }

\* command['filter'] with groups: each group of each list of children, and
\* the not_and of the not_and of one leaf.
GroupFilters ==
    { Group(key, children) : key \in Combinators, children \in Children }
        \cup { Group("not_and", <<Group("not_and", <<x>>)>>) : x \in SomeLeaves }

\* command['filter'] with objects that have not exactly one key: a leaf whose
\* operator object has no key, or two, on every column; and nodes with two
\* keys (two groups, two columns, and the empty key before a column).
NoOperator(column) == <<[k |-> column, v |-> <<>>]>>
TwoOperators(column) ==
    <<[k |-> column, v |-> <<[k |-> "gte", v |-> IntV(1)], [k |-> "lte", v |-> IntV(MaxInt)]>>]>>
TwoKeys ==
    { Group("and", <<ColTest("s", "lt", IntV(MaxInt))>>)
          \o Group("or", <<ColTest("s", "lt", IntV(MaxInt))>>),
      ColTest("s", "lt", IntV(MaxInt)) \o ColTest("u", "lt", IntV(MaxInt)),
      <<[k |-> "", v |-> <<>>]>> \o ColTest("s", "lt", IntV(MaxInt)) }
OddFilters ==
    { NoOperator(column) : column \in Columns(FilterTable.indices) }
        \cup { TwoOperators(column) : column \in Columns(FilterTable.indices) }
        \cup TwoKeys

NextFilter ==
    \/ CreateFind(Solo, FilterTable)
    \/ CreateInsert(Solo)
    \/ \E field \in IndexFields : CreateIndex(Solo, field)
    \/ \E data \in FilterBatches : StartInsert(Solo, FilterTableName, data)
    \/ \E key \in {Solo} \X RowIds : TaskFind(key)
    \/ \E key \in {Solo} \X RowIds, col \in LookupFields : TaskLookup(key, col)
    \/ \E key \in {Solo} \X RowIds : TaskWrite(key)
    \/ FinishInsert(Solo)
    \/ \E filter \in LeafFilters \cup GroupFilters \cup OddFilters :
           DeleteDataFind(Solo, FilterTableName, filter)
    \/ DeleteDataMany(Solo)
    \/ \E filter \in LeafFilters \cup GroupFilters \cup OddFilters :
           QueryDataFind(Solo, FilterTableName, Query(filter, <<>>, NoneV))
    \/ QueryDataRows(Solo)

-----------------------------------------------------------------------------
(* Sessions of one owner whose drop_table and insert_data commands interleave *)

NextDrop ==
    \/ \E s \in Racers, table_spec \in TableSpecs : CreateFind(s, table_spec)
    \/ \E s \in Racers : CreateInsert(s)
    \/ \E s \in Racers, field \in IndexFields : CreateIndex(s, field)
    \/ \E s \in Racers, data \in TenantBatches : StartInsert(s, TableName, data)
    \/ \E key \in Racers \X RowIds : TaskFind(key)
    \/ \E key \in Racers \X RowIds, col \in LookupFields : TaskLookup(key, col)
    \/ \E key \in Racers \X RowIds : TaskWrite(key)
    \/ \E s \in Racers : FinishInsert(s)
    \/ \E s \in Racers : InsertRaises(s)
    \/ \E s \in Racers : DropFind(s, TableName)
    \/ \E s \in Racers : DropCollection(s)
    \/ \E s \in Racers : DropEntry(s)
    \/ \E s \in Racers : DropReturn(s)

-----------------------------------------------------------------------------
(* Claims about the server session *)

\* The replies of the command loop: what an authenticated session wrote after
\* the challenge.
LoopReplies == IF username = <<>> THEN <<>> ELSE Tail(outbox)

LastReceived == received[Len(received)]

\* C1: no command is dispatched unless the handshake response decoded to the
\* bytes of the token drawn for this handshake; when it decodes to other
\* bytes, the server writes {success:false, error:102}, the connection is
\* closed and nothing is ever dispatched on it.
C1_DispatchOnlyAfterTokenMatch ==
    LET decoded == fromhex(response.hex)
    IN  /\ (Len(dispatched) > 0 \/ state \in {"AuthedIdle", "Dispatching"}) =>
              response.seen /\ decoded.ok /\ decoded.bytes = token
        /\ (response.seen /\ decoded.ok /\ decoded.bytes # token) =>
              /\ state = "Closed"
              /\ ending = "close"
              /\ outbox[Len(outbox)] = FailureMsg(AUTH_BYTES_NO_MATCH)
              /\ dispatched = <<>>
              /\ received = <<>>

\* C1's case: a well-formed response with the wrong bytes was read.
C1_Witness ==
    /\ response.seen
    /\ fromhex(response.hex).ok
    /\ fromhex(response.hex).bytes # token
    /\ state = "Closed"

\* C2 (as claimed): whenever the command loop is between two messages or has
\* ended, it has written exactly one reply for every message it read, and it
\* never has written more replies than it read messages.
C2_OneReplyPerMessage ==
    /\ Len(LoopReplies) <= Len(received)
    /\ (username # <<>> /\ state \in {"AuthedIdle", "Closed"}) =>
          Len(LoopReplies) = Len(received)

\* A command that lacks cmd, lacks a field its handler reads, or carries a
\* payload of the wrong type.
Malformed(obj) ==
    \/ ~Has(obj, "cmd")
    \/ /\ obj.cmd \in HandlerCmds
       /\ \/ ~(RequiredFields(obj.cmd) \subseteq DOMAIN obj)
          \/ \E k \in RequiredFields(obj.cmd) : obj[k] = "badtype"

\* C3 (as claimed): once a malformed command was handled, its reply is
\* {success:false, error:2} and the session is back in the command loop.
C3_MalformedAnsweredWith2 ==
    (received # <<>> /\ Malformed(LastReceived) /\ state # "Dispatching") =>
        /\ state = "AuthedIdle"
        /\ Len(LoopReplies) = Len(received)
        /\ outbox[Len(outbox)] = FailureMsg(REQUEST_IMPROPERLY_FORMATTED)

\* C4 (as claimed): once an exit command was read, with or without cmd_id,
\* the farewell is the last message written and the session is Closed.
C4_ExitGetsFarewell ==
    (received # <<>> /\ Has(LastReceived, "cmd") /\ LastReceived.cmd = "exit") =>
        /\ state = "Closed"
        /\ Has(outbox[Len(outbox)], "farewell")
        /\ Len(dispatched) = Len(received) - 1

-----------------------------------------------------------------------------
(* The client connection: phasmadb.py PhasmaDBConnection *)

\* A future: pending, or done with the response it was given, or done with
\* the exception it was given.
PendingFuture == [st |-> "pending", answers |-> 0]

NoFuture == 0

InitClient ==
    /\ commands = <<>>
    /\ exception = ""
    /\ futures = <<>>
    /\ refused = 0
    /\ task = "start"
    /\ task_end = ""
    /\ ended_at = 0
    /\ current_future = NoFuture
    /\ sent_exit = FALSE
    /\ ws_closed = FALSE
    /\ written = <<>>
    /\ delivered = 0
    /\ peer_inbox = <<>>
    /\ peer_alive = TRUE
    /\ peer_authed = FALSE
    /\ inbound = <<>>

\* phasmadb.py 339-345 __send_command, up to its `await future`: the call is
\* refused with the stored exception, or a new future is queued behind the
\* others.  Command n is the n-th one queued; `f` is its future.
Call(kind) ==
    /\ UNCHANGED notClient
    /\ Len(futures) + refused < MaxCmds
    /\ IF exception # ""
       THEN /\ refused' = refused + 1
            /\ UNCHANGED <<commands, futures>>
       ELSE /\ futures' = Append(futures, PendingFuture)
            /\ commands' = Append(commands, [cmd |-> kind, f |-> Len(futures) + 1])
            /\ refused' = refused
    /\ UNCHANGED <<exception, task, task_end, ended_at, current_future, sent_exit,
                   ws_closed, written, delivered, peer_inbox, peer_alive, peer_authed,
                   inbound>>

\* The connection task is over.
TaskEnds(how) ==
    /\ task' = "done"
    /\ task_end' = how
    /\ ended_at' = Len(futures)

\* phasmadb.py 331-337: the except branch for ClientConnectionError.  The
\* queue is not empty while it is drained, so no get() in it suspends.
Caught ==
    /\ exception' = "ClientConnectionError"
    /\ futures' =
         [n \in DOMAIN futures |->
            IF n = current_future \/ \E i \in DOMAIN commands : commands[i].f = n
            THEN [st |-> "exception", answers |-> 0]
            ELSE futures[n]]
    /\ commands' = <<>>
    /\ TaskEnds("caught")

\* Any other exception leaves connection() through the `async with`: nothing
\* is stored and no future is touched.
Uncaught ==
    /\ TaskEnds("uncaught")
    /\ UNCHANGED <<exception, futures, commands>>

\* phasmadb.py 304-305: ws_connect and the first send.
Connect(outcome) ==
    /\ UNCHANGED notClient
    /\ task = "start"
    /\ IF outcome = "ok"
       THEN /\ task' = "await_challenge"
            /\ UNCHANGED <<exception, futures, commands, task_end, ended_at>>
       ELSE Caught
    /\ UNCHANGED <<refused, current_future, sent_exit, ws_closed, written, delivered,
                   peer_inbox, peer_alive, peer_authed, inbound>>

\* What the server's handshake can hand the client as its first frame: a
\* challenge, the rejection {challenge: null, error: 101}, or no message.
ChallengeFrames == {"challenge", "rejected", "closed"}

\* phasmadb.py 307-313: the challenge is answered with send_json, which may
\* fail with ClientConnectionError as every send may (`sent` tells whether it
\* got through); for a rejection PhasmaDBError is raised and for no message
\* TypeError (None['challenge']), before any send.
RecvChallenge(frame, sent) ==
    /\ UNCHANGED notClient
    /\ task = "await_challenge"
    /\ IF frame # "challenge"
       THEN Uncaught
       ELSE IF sent
       THEN /\ task' = "loop"
            /\ UNCHANGED <<task_end, ended_at, exception, futures, commands>>
       ELSE Caught
    /\ ws_closed' = (frame = "closed")
    /\ UNCHANGED <<refused, current_future, sent_exit, written, delivered,
                   peer_inbox, peer_alive, peer_authed, inbound>>

\* A queue that hands out its newest entry.
QueueGet_Lifo(q) == [entry |-> q[Len(q)], rest |-> SubSeq(q, 1, Len(q) - 1)]

\* The queue after Queue.get(), and the entry it returned.
QueueGet(q) == [entry |-> Head(q), rest |-> Tail(q)]

\* phasmadb.py 315: the loop condition fails.
LoopExit ==
    /\ UNCHANGED notClient
    /\ task = "loop"
    /\ ws_closed \/ sent_exit
    /\ TaskEnds("exit")
    /\ UNCHANGED <<commands, exception, futures, refused, current_future, sent_exit,
                   ws_closed, written, delivered, peer_inbox, peer_alive, peer_authed,
                   inbound>>

\* phasmadb.py 315-322: one entry is taken from the queue and its command is
\* written; send_json may fail with ClientConnectionError.
GetAndSend(sent) ==
    /\ UNCHANGED notClient
    /\ task = "loop"
    /\ ~(ws_closed \/ sent_exit)
    /\ commands # <<>>
    /\ LET got == QueueGet(commands)
       IN  IF sent
           THEN /\ commands' = got.rest
                /\ current_future' = got.entry.f
                /\ sent_exit' = (got.entry.cmd = "exit")
                /\ written' = Append(written, got.entry.f)
                /\ peer_inbox' = IF peer_alive THEN Append(peer_inbox, got.entry.f)
                                 ELSE peer_inbox
                /\ task' = "await_response"
                /\ UNCHANGED <<task_end, ended_at, exception, futures>>
           ELSE /\ exception' = "ClientConnectionError"
                /\ futures' =
                     [n \in DOMAIN futures |->
                        IF \E i \in DOMAIN commands : commands[i].f = n
                        THEN [st |-> "exception", answers |-> 0]
                        ELSE futures[n]]
                /\ commands' = <<>>
                /\ current_future' = got.entry.f
                /\ sent_exit' = (got.entry.cmd = "exit")
                /\ TaskEnds("caught")
                /\ UNCHANGED <<written, peer_inbox>>
    /\ UNCHANGED <<refused, ws_closed, delivered, peer_alive, peer_authed, inbound>>

\* future.set_result(response) for the future the task holds.
SetResult(fs, f, frame) == [fs EXCEPT ![f] = [st |-> "result", answers |-> frame.answers]]

\* phasmadb.py 323-330: the next frame is read.  A response is given to the
\* future of the command in flight; anything read_json turns into None, and a
\* falsy JSON value, ends the loop with `break`.
RecvReply ==
    /\ UNCHANGED notClient
    /\ task = "await_response"
    /\ inbound # <<>>
    /\ LET frame == Head(inbound)
       IN  /\ inbound' = Tail(inbound)
           /\ IF frame.type = "TEXT" /\ frame.truthy
              THEN /\ futures' = SetResult(futures, current_future, frame)
                   /\ current_future' = NoFuture
                   /\ delivered' = delivered + 1
                   /\ task' = "loop"
                   /\ UNCHANGED <<task_end, ended_at, ws_closed>>
              ELSE /\ TaskEnds(IF frame.type = "TEXT" THEN "break_falsy" ELSE "break")
                   /\ ws_closed' = (frame.type = "CLOSE")
                   /\ UNCHANGED <<futures, current_future, delivered>>
    /\ UNCHANGED <<commands, exception, refused, sent_exit, written, peer_inbox, peer_alive,
                   peer_authed>>

\* The transport fails under ws.receive() with ClientConnectionError.
ReadFails ==
    /\ UNCHANGED notClient
    /\ task = "await_response"
    /\ Caught
    /\ UNCHANGED <<refused, current_future, sent_exit, ws_closed, written, delivered,
                   peer_inbox, peer_alive, peer_authed, inbound>>

\* auth.py 60-66 with server.py 23-28: the server's handshake found the bytes
\* of the response equal to its token; index() enters the command loop.  The
\* server writes nothing for it.
PeerAccepts ==
    /\ UNCHANGED notClient
    /\ peer_alive
    /\ ~peer_authed
    /\ task \in {"loop", "await_response"}
    /\ peer_authed' = TRUE
    /\ UNCHANGED <<commands, exception, futures, refused, task, task_end, ended_at,
                   current_future, sent_exit, ws_closed, written, delivered, peer_inbox,
                   peer_alive, inbound>>

\* auth.py 62-64 with server.py 24-26: the bytes of the response differ from
\* the token (the credential holds another key); the server writes
\* {success: false, error: 102} and closes, having read no command.  The
\* frame answers no command (answers = 0).
PeerRejects ==
    /\ UNCHANGED notClient
    /\ peer_alive
    /\ ~peer_authed
    /\ task \in {"loop", "await_response"}
    /\ peer_alive' = FALSE
    /\ inbound' = inbound \o <<[type |-> "TEXT", truthy |-> TRUE, answers |-> 0],
                               [type |-> "CLOSE", truthy |-> FALSE, answers |-> 0]>>
    /\ UNCHANGED <<commands, exception, futures, refused, task, task_end, ended_at,
                   current_future, sent_exit, ws_closed, written, delivered, peer_inbox,
                   peer_authed>>

\* The server, in its command loop, answers the oldest command it has not
\* answered: server.py 33 and 37.  process_command may return the empty
\* object (dbfuncs.py 83-93), which is falsy at the client.
PeerReply(truthy) ==
    /\ UNCHANGED notClient
    /\ peer_alive
    /\ peer_authed
    /\ peer_inbox # <<>>
    /\ inbound' = Append(inbound, [type |-> "TEXT", truthy |-> truthy, answers |-> Head(peer_inbox)])
    /\ peer_inbox' = Tail(peer_inbox)
    /\ UNCHANGED <<commands, exception, futures, refused, task, task_end, ended_at,
                   current_future, sent_exit, ws_closed, written, delivered, peer_alive,
                   peer_authed>>

\* The server's side of the connection ends (server.py 25, 34, 39, or an
\* exception leaving index()): the client's next read yields a CLOSE frame, or
\* an ERROR frame when the transport broke.
PeerCloses(type) ==
    /\ UNCHANGED notClient
    /\ peer_alive
    /\ task \in {"loop", "await_response"}
    /\ peer_alive' = FALSE
    /\ inbound' = Append(inbound, [type |-> type, truthy |-> FALSE, answers |-> 0])
    /\ UNCHANGED <<commands, exception, futures, refused, task, task_end, ended_at,
                   current_future, sent_exit, ws_closed, written, delivered, peer_inbox,
                   peer_authed>>

NextClient ==
    \/ \E kind \in {"exit", "query_by_id"} : Call(kind)
    \/ \E outcome \in {"ok", "ClientConnectionError"} : Connect(outcome)
    \/ \E frame \in ChallengeFrames, sent \in BOOLEAN : RecvChallenge(frame, sent)
    \/ LoopExit
    \/ \E sent \in BOOLEAN : GetAndSend(sent)
    \/ RecvReply
    \/ ReadFails
    \/ PeerAccepts
    \/ PeerRejects
    \/ \E truthy \in BOOLEAN : PeerReply(truthy)
    \/ \E type \in {"CLOSE", "ERROR"} : PeerCloses(type)

-----------------------------------------------------------------------------
(* Claims about the client connection *)

\* C5 (as claimed): commands are written in the order they were queued
\* (command n is the n-th queued), a command is written only when every
\* command written before it has its response, and a future that holds a
\* response holds the one that answers its own command.
C5_InOrderOneInFlight ==
    /\ \A i \in DOMAIN written : written[i] = i
    /\ \A i \in DOMAIN written : i < Len(written) => futures[written[i]].st = "result"
    /\ Len(written) - delivered \in {0, 1}
    /\ \A n \in DOMAIN futures : futures[n].st = "result" => futures[n].answers = n

\* What holds of C5: the order of the writes, one command in flight, and a
\* future never holds the answer to another command; it may hold the frame
\* the server's handshake wrote, which answers none.
InOrderOneInFlight ==
    /\ \A i \in DOMAIN written : written[i] = i
    /\ \A i \in DOMAIN written : i < Len(written) => futures[written[i]].st = "result"
    /\ Len(written) - delivered \in {0, 1}
    /\ \A n \in DOMAIN futures : futures[n].st = "result" => futures[n].answers \in {0, n}

\* C5's case: the first command has its response, the second is in flight
\* and a third waits in the queue.
C5_Witness ==
    /\ Len(futures) >= 3
    /\ futures[1].st = "result"
    /\ task = "await_response"
    /\ current_future = 2
    /\ Len(commands) = 1

\* The connection task ended on a transport failure: ClientConnectionError,
\* or a read that gave a CLOSE or ERROR frame instead of a response.
TransportFailed == task_end \in {"caught", "break"}

\* C6 (as claimed): after a transport failure no future that existed at the
\* failure is pending: the one in flight and the queued ones hold the error.
C6_FailureSignalsAll ==
    TransportFailed => \A n \in 1..ended_at : futures[n].st # "pending"

\* C7 (as claimed): after a transport failure every send attempt is refused
\* with the stored error: no future is created and nothing is queued.
C7_SendAfterFailureRefused ==
    TransportFailed => Len(futures) = ended_at

-----------------------------------------------------------------------------
(* Claims about the row store *)

\* Session s is inside the command `pc` with argument `arg`.
Running(s, pc, arg) == sess[s].state = pc /\ sess[s].arg = arg

\* The step that ends a query_by_id of session s for row_id: its read of the
\* catalog when that answers, its find_one of the row otherwise.
QueryByIdEnds(s, table_name, row_id) ==
    \/ (QueryByIdFind(s, table_name, row_id) /\ sess'[s].state # "query_by_id")
    \/ (Running(s, "query_by_id", row_id) /\ QueryByIdRow(s))

\* The step that ends a query_data of session s with `query`.
QueryDataEnds(s, table_name, query) ==
    \/ (QueryDataFind(s, table_name, query) /\ sess'[s].state # "query_data")
    \/ (Running(s, "query_data", query) /\ QueryDataRows(s))

\* The step that ends a delete_by_id of session s for row_id.
DeleteByIdEnds(s, table_name, row_id) ==
    \/ (DeleteByIdFind(s, table_name, row_id) /\ sess'[s].state # "delete_by_id")
    \/ (Running(s, "delete_by_id", row_id) /\ DeleteByIdOne(s))

\* The step that ends a delete_data of session s with `filter`.
DeleteDataEnds(s, table_name, filter) ==
    \/ (DeleteDataFind(s, table_name, filter) /\ sess'[s].state # "delete_data")
    \/ (Running(s, "delete_data", filter) /\ DeleteDataMany(s))

\* The rows of a table of the catalog.
RowsOf(t) == Coll(collection_name(t.owner, t.name)).rows

\* Two tasks of insert_datum for the data of different commands or rows.
TaskPairs == { pair \in (DOMAIN tasks) \X (DOMAIN tasks) : pair[1] # pair[2] }

Succeeded(tk) == tk.result.kind = "return" /\ tk.result.res.ok

\* C8: in every reachable state, whatever insert_data, delete_by_id and
\* delete_data commands the sessions have run or are running, no two rows of
\* one table have the same row_id.
C8_RowIdUnique ==
    \A t \in tables :
        \A d1, d2 \in RowsOf(t) : d1.row_id = d2.row_id => d1 = d2

\* The columns a table of the catalog declares unique or unique_text.
DeclaredUnique(t) ==
    { col \in {"u", "w", "U", "z"} :
        \E i \in DOMAIN t.indices :
            t.indices[i].k = col /\ t.indices[i].v \in {"unique", "unique_text"} }

\* C9: in every reachable state, for every column declared unique or
\* unique_text, no two rows of the table with different row_id hold the same
\* value in that column (data of one batch run concurrently, and so do the
\* inserts and partial updates of different sessions).
C9_UniqueColumnsDistinct ==
    \A t \in tables :
        \A col \in DeclaredUnique(t) :
            \A d1, d2 \in RowsOf(t) :
                (d1.row_id # d2.row_id /\ col \in DOMAIN d1.index /\ col \in DOMAIN d2.index)
                    => d1.index[col] # d2.index[col]

\* Two tasks whose rows cannot both be in the table: one row_id, or different
\* row ids with one value in a column declared unique or unique_text.
Colliding(t1, t2) ==
    \/ t1.datum_id = t2.datum_id
    \/ \E i \in DOMAIN t1.table.indices :
           /\ t1.table.indices[i].v \in {"unique", "unique_text"}
           /\ t1.indexed_data[t1.table.indices[i].k] = t2.indexed_data[t1.table.indices[i].k]

\* C10: when the tasks of two sessions insert colliding new rows, both pass
\* their pre-checks and one write succeeds, the store's refusal of the other
\* write is not raised: that task returns a failure result with code 301 or
\* 302 for its datum.
C10_StoreConflictRemapped ==
    \A pair \in TaskPairs :
        LET t1 == tasks[pair[1]]
            t2 == tasks[pair[2]]
        IN  ( /\ pair[1][1] # pair[2][1]
              /\ t1.wrote /\ t2.wrote
              /\ t1.existing_row = NoDoc /\ t2.existing_row = NoDoc
              /\ Colliding(t1, t2)
              /\ Succeeded(t1) )
            => /\ t2.result.kind = "return"
               /\ ~t2.result.res.ok
               /\ t2.result.res.code \in {ROW_DOES_NOT_EXIST, ROW_SAME_UNIQUES_ALREADY_EXISTS}

\* C11: an insert_data command on an existing table is answered with one
\* result entry for each row id of the request, also when two data of the
\* batch collide on a unique column value: the datum whose write the store
\* refuses has a result of its own and the session goes on.
C11_BatchItemized ==
    \A pair \in TaskPairs :
        LET t1 == tasks[pair[1]]
            t2 == tasks[pair[2]]
        IN  ( /\ pair[1][1] = pair[2][1]
              /\ t1.wrote /\ t2.wrote
              /\ Colliding(t1, t2)
              /\ Succeeded(t1) )
            => /\ t2.result.kind = "return"
               /\ sess[pair[2][1]].state # "ended"

\* The rows of the task's table other than the datum's own that hold, in
\* column col, the value the datum carries for it.
HoldersOf(tk, col) ==
    { d \in RowsOf(tk.table) :
        /\ d.row_id # tk.datum_id
        /\ col \in DOMAIN d.index
        /\ d.index[col] = tk.indexed_data[col] }

\* C12: when a datum reaches its uniqueness lookups (it passed the checks for
\* missing columns, conversion and undeclared columns) and, when the lookup
\* of a unique or unique_text column runs, a row with another row_id holds
\* the datum's value in that column, the datum returns 302 once its lookups
\* are over, be it a fresh insert or an update; it writes nothing, and no
\* step of its lookups changes a row.
C12_CollisionFailsWith302 ==
    /\ [][\A key \in DOMAIN tasks, col \in LookupFields :
            (TaskLookup(key, col) /\ (tasks[key].collided \/ HoldersOf(tasks[key], col) # {})) =>
                /\ colls' = colls
                /\ ~tasks'[key].wrote
                /\ IF tasks[key].pending = {col}
                   THEN /\ tasks'[key].pc = "done"
                        /\ tasks'[key].result.kind = "return"
                        /\ tasks'[key].result.res =
                               FailureResult(ROW_SAME_UNIQUES_ALREADY_EXISTS)
                   ELSE /\ tasks'[key].pc = "check"
                        /\ tasks'[key].collided]_vars
    /\ [](\A key \in DOMAIN tasks :
             tasks[key].collided =>
                 /\ ~tasks[key].wrote
                 /\ tasks[key].pc \in {"check", "done"}
                 /\ tasks[key].pc = "done" =>
                        /\ tasks[key].result.kind = "return"
                        /\ tasks[key].result.res =
                               FailureResult(ROW_SAME_UNIQUES_ALREADY_EXISTS))

\* C12's case: an update of an existing row carried the value another row
\* holds and was refused with 302.
C12_Witness ==
    \E key \in DOMAIN tasks :
        /\ tasks[key].existing_row # NoDoc
        /\ tasks[key].collided
        /\ \E col \in LookupFields \cap UniqueColumns(tasks[key].table.indices) :
               HoldersOf(tasks[key], col) # {}
        /\ tasks[key].result.kind = "return"
        /\ tasks[key].result.res = FailureResult(ROW_SAME_UNIQUES_ALREADY_EXISTS)
        /\ ~tasks[key].wrote

\* The datum of a task names some but not all declared columns, each with a
\* value of the column's type.
Partial(tk) ==
    /\ DOMAIN tk.datum.indexed \subseteq Columns(tk.table.indices)
    /\ DOMAIN tk.datum.indexed # Columns(tk.table.indices)
    /\ \A col \in DOMAIN tk.datum.indexed :
           CellValue(TypeOf(tk.table.indices, col), tk.datum.indexed[col]).ok

\* The row the update is to leave behind: the request's values where it has
\* some, the values of row `old` elsewhere, the request's extra, the same _id.
Merged(tk, old) ==
    Doc(old.id, tk.datum_id,
        [col \in Columns(tk.table.indices) |->
            IF col \in DOMAIN tk.datum.indexed
            THEN CellValue(TypeOf(tk.table.indices, col), tk.datum.indexed[col]).v
            ELSE old.index[col]],
        str(tk.datum.extra))

\* The rows other than the datum's own that share an index key with it in a
\* unique column.
Rivals(tk) ==
    { d \in RowsOf(tk.table) :
        /\ d.row_id # tk.datum_id
        /\ \E col \in UniqueColumns(tk.table.indices) :
               FieldKeys(d, col) \cap IndexKeys(tk.indexed_data[col]) # {} }

\* C13: a datum for a row_id that exists, naming only some of the declared
\* columns, passes the checks of insert_datum, and when no other row holds
\* its unique values it succeeds; the stored row then has the request's
\* values in the columns it named, the values stored before in the others,
\* the request's extra, and the same backing-store id.
C13_PartialUpdateMerges ==
    [][\A key \in {Solo} \X RowIds :
          LET tk == tasks[key]
              stored == ByRowId(Coll(TaskColl(tk)), tk.datum_id)
          IN  /\ (TaskFind(key) /\ stored # {} /\ Partial(tk)) =>
                    \E old \in stored :
                        /\ tasks'[key].pc \in {"check", "write"}
                        /\ tasks'[key].indexed_data = Merged(tk, old).index
              /\ \A col \in LookupFields :
                    (TaskLookup(key, col) /\ Partial(tk) /\ Rivals(tk) = {}
                         /\ ~tk.collided) =>
                        /\ ~tasks'[key].collided
                        /\ tasks'[key].pc = (IF tk.pending = {col} THEN "write" ELSE "check")
              /\ (TaskWrite(key) /\ stored # {} /\ Partial(tk) /\ Rivals(tk) = {}) =>
                    \E old \in stored :
                        /\ tasks'[key].result.kind = "return"
                        /\ tasks'[key].result.res = SuccessResult(NoneV)
                        /\ RowsOf(tk.table)' = (RowsOf(tk.table) \ {old})
                                                   \cup {Merged(tk, old)}]_vars

\* C13's case: a partial update was written; the row has the new value of
\* the column the request named, the old value of the one it omitted, and a
\* new extra.
C13_Witness ==
    \E key \in DOMAIN tasks :
        LET tk == tasks[key]
        IN  /\ Partial(tk)
            /\ tk.wrote
            /\ tk.result.kind = "return"
            /\ tk.result.res = SuccessResult(NoneV)
            /\ \E d \in RowsOf(tk.table) :
                   /\ d.row_id = tk.datum_id
                   /\ d.id = tk.existing_row.id
                   /\ \E named \in DOMAIN tk.datum.indexed :
                          d.index[named] # tk.existing_row.index[named]
                   /\ \E omitted \in Columns(tk.table.indices) \ DOMAIN tk.datum.indexed :
                          d.index[omitted] = tk.existing_row.index[omitted]
                   /\ d.extra # tk.existing_row.extra
                   /\ d.extra = str(tk.datum.extra)

\* The datum of a task names every declared column and no other, each with a
\* value of the column's type.
Full(tk) ==
    /\ DOMAIN tk.datum.indexed = Columns(tk.table.indices)
    /\ \A col \in DOMAIN tk.datum.indexed :
           CellValue(TypeOf(tk.table.indices, col), tk.datum.indexed[col]).ok

\* The rows an earlier insert of the task's datum under its row_id left.
SameRow(tk) ==
    { d \in RowsOf(tk.table) :
        /\ d.row_id = tk.datum_id
        /\ d.extra = str(tk.datum.extra)
        /\ d.index = [col \in Columns(tk.table.indices) |->
                         CellValue(TypeOf(tk.table.indices, col), tk.datum.indexed[col]).v] }

\* C14: inserting, under the same row_id, the full row that is already stored
\* succeeds again and changes nothing: the datum passes the checks, its write
\* is accepted, and the collections (row count, indexed values, backing-store
\* id of the row) are as they were.
C14_ReinsertIdempotent ==
    [][\A key \in {Solo} \X RowIds :
          LET tk == tasks[key]
          IN  /\ (TaskFind(key) /\ Full(tk) /\ SameRow(tk) # {}) =>
                    tasks'[key].pc \in {"check", "write"}
              /\ \A col \in LookupFields :
                    (TaskLookup(key, col) /\ Full(tk) /\ SameRow(tk) # {}) =>
                        /\ ~tasks'[key].collided
                        /\ tasks'[key].pc = (IF tk.pending = {col} THEN "write" ELSE "check")
              /\ (TaskWrite(key) /\ Full(tk) /\ SameRow(tk) # {}) =>
                    /\ tasks'[key].result.kind = "return"
                    /\ tasks'[key].result.res = SuccessResult(NoneV)
                    /\ colls' = colls
                    /\ next_id' = next_id]_vars

\* C14's case: the second insert of a full row was written over the row the
\* first one left, and the row is the same.
C14_Witness ==
    \E key \in DOMAIN tasks :
        LET tk == tasks[key]
        IN  /\ Full(tk)
            /\ tk.existing_row # NoDoc
            /\ tk.wrote
            /\ tk.result.kind = "return"
            /\ tk.result.res = SuccessResult(NoneV)
            /\ SameRow(tk) = {tk.existing_row}
            /\ Cardinality(RowsOf(tk.table)) = 2

\* The values the datum gives for declared columns are of the columns' types.
Convertible(tk) ==
    \A col \in DOMAIN tk.datum.indexed \cap Columns(tk.table.indices) :
        CellValue(TypeOf(tk.table.indices, col), tk.datum.indexed[col]).ok

\* C15: a datum for a row_id the table does not hold that lacks a declared
\* column returns 303 and no row is inserted, whatever values it gives for
\* the columns it names.
C15_FreshRowNeedsAllColumns ==
    [][\A key \in {Solo} \X RowIds :
          LET tk == tasks[key]
          IN  ( /\ TaskFind(key)
                /\ ByRowId(Coll(TaskColl(tk)), tk.datum_id) = {}
                /\ Columns(tk.table.indices) \ DOMAIN tk.datum.indexed # {} )
              => /\ tasks'[key].pc = "done"
                 /\ tasks'[key].result.kind = "return"
                 /\ tasks'[key].result.res = FailureResult(ROW_LACKS_SOME_INDEXED_VALUES)
                 /\ ~tasks'[key].wrote
                 /\ colls' = colls]_vars

\* The same for a datum whose values are of their columns' types: it returns
\* 303 and no row is inserted.
FreshRowNeedsAllColumns_Convertible ==
    [][\A key \in {Solo} \X RowIds :
          LET tk == tasks[key]
          IN  ( /\ TaskFind(key)
                /\ ByRowId(Coll(TaskColl(tk)), tk.datum_id) = {}
                /\ Columns(tk.table.indices) \ DOMAIN tk.datum.indexed # {}
                /\ Convertible(tk) )
              => /\ tasks'[key].pc = "done"
                 /\ tasks'[key].result.kind = "return"
                 /\ tasks'[key].result.res = FailureResult(ROW_LACKS_SOME_INDEXED_VALUES)
                 /\ ~tasks'[key].wrote
                 /\ colls' = colls]_vars

\* The datum names a column the table does not declare.
Undeclared(tk) == DOMAIN tk.datum.indexed \ Columns(tk.table.indices) # {}

\* C16: a datum whose indexed map names a column the table does not declare
\* returns 304 and no row changes, both when its row_id is stored (an update)
\* and when it is not and the datum names every declared column (a fresh
\* insert; one that also lacks a declared column is refused with 303 first).
C16_UndeclaredColumnFailsWith304 ==
    [][\A key \in {Solo} \X RowIds :
          LET tk == tasks[key]
          IN  ( /\ TaskFind(key)
                /\ Undeclared(tk)
                /\ Convertible(tk)
                /\ \/ ByRowId(Coll(TaskColl(tk)), tk.datum_id) # {}
                   \/ Columns(tk.table.indices) \subseteq DOMAIN tk.datum.indexed )
              => /\ tasks'[key].pc = "done"
                 /\ tasks'[key].result.kind = "return"
                 /\ tasks'[key].result.res = FailureResult(ROW_HAS_EXTRA_INDEXED_VALUES)
                 /\ ~tasks'[key].wrote
                 /\ colls' = colls]_vars

\* C16's case: an update of a stored row named an undeclared column and was
\* refused with 304; the row is still there.
C16_Witness ==
    \E key \in DOMAIN tasks :
        LET tk == tasks[key]
        IN  /\ Undeclared(tk)
            /\ ByRowId(Coll(TaskColl(tk)), tk.datum_id) # {}
            /\ tk.result.kind = "return"
            /\ tk.result.res = FailureResult(ROW_HAS_EXTRA_INDEXED_VALUES)
            /\ ~tk.wrote

\* The rows of table t of the owner, and whether the catalog has the table.
TableRows == Coll(collection_name(Owner, TableName)).rows
TableExists == FindTable(Owner, TableName) # {}

\* The session's last reply is a success carrying exactly `rows` as data.
RepliedRows(msg, rows) ==
    /\ Has(msg, "success") /\ msg.success
    /\ Has(msg, "data")
    /\ { msg.data[i] : i \in DOMAIN msg.data } = { RowEntry(d) : d \in rows }
    /\ Len(msg.data) = Cardinality(rows)

\* The session's last reply is a success carrying count n.
RepliedCount(msg, n) ==
    /\ Has(msg, "success") /\ msg.success
    /\ Has(msg, "count") /\ msg.count = n

\* C17: on a table that holds rows, query_data with the empty filter {} is
\* answered with every row of the table, and delete_data with the empty
\* filter removes every row and reports how many there were.
C17_EmptyFilterSelectsAll ==
    [][(TableExists /\ TableRows # {}) =>
          /\ QueryDataEnds(Solo, TableName, Query(<<>>, <<>>, NoneV)) =>
                RepliedRows(sess'[Solo].reply, TableRows)
          /\ DeleteDataEnds(Solo, TableName, <<>>) =>
                /\ TableRows' = {}
                /\ RepliedCount(sess'[Solo].reply, Cardinality(TableRows))]_vars

\* A filter as the spec's query grammar has it: groups and, or, not_and,
\* not_or of at least one child over leaves {column: {op: operand}} with a
\* declared column, eq, lt, lte, gt, gte with an integer on a sort or unique
\* column, text with a string or a list of strings on a text column.
RECURSIVE WellFormedFilter(_, _)
WellFormedFilter(f, indices) ==
    /\ Len(f) = 1
    /\ IF f[1].k \in Combinators
       THEN /\ Len(f[1].v) >= 1
            /\ \A i \in DOMAIN f[1].v : WellFormedFilter(f[1].v[i], indices)
       ELSE /\ f[1].k \in Columns(indices)
            /\ Len(f[1].v) = 1
            /\ LET op == f[1].v[1].k
                   operand == f[1].v[1].v
               IN  IF TypeOf(indices, f[1].k) \in {"text", "unique_text"}
                   THEN op = "text" /\ operand.t \in {"str", "list"}
                   ELSE op \in {"eq", "lt", "lte", "gt", "gte"} /\ int(operand).ok

\* eval(Q, r) of the spec: whether row d satisfies the well-formed filter f.
RECURSIVE Eval(_, _)
Eval(d, f) ==
    LET key == f[1].k
        arg == f[1].v
    IN  CASE key = "and" -> \A i \in DOMAIN arg : Eval(d, arg[i])
          [] key = "or" -> \E i \in DOMAIN arg : Eval(d, arg[i])
          [] key = "not_and" -> ~ \A i \in DOMAIN arg : Eval(d, arg[i])
          [] key = "not_or" -> ~ \E i \in DOMAIN arg : Eval(d, arg[i])
          [] OTHER ->
               LET op == arg[1].k
                   operand == arg[1].v
                   x == d.index[key]
               IN  CASE op = "text" ->
                            IF operand.t = "list"
                            THEN \A i \in DOMAIN operand.l : StrV(operand.l[i]) \in IndexKeys(x)
                            ELSE operand \in IndexKeys(x)
                     [] op = "eq" -> x.n = int(operand).v.n
                     [] op = "lt" -> x.n < int(operand).v.n
                     [] op = "lte" -> x.n <= int(operand).v.n
                     [] op = "gt" -> x.n > int(operand).v.n
                     [] OTHER -> x.n >= int(operand).v.n

\* The query_data commands of the session with a well-formed filter, a sort
\* that compiles, and no limit.
Unlimited(indices) ==
    { q \in Queries :
        /\ q.limit = NoneV
        /\ WellFormedFilter(q.filter, indices)
        /\ process_received_query_order(q.sort, indices, 1, <<>>).kind = "ok" }

\* C18: a query_data without limit whose filter is well formed is answered
\* with exactly the rows of the table that satisfy the filter, each with its
\* stored indexed values and extra, in every state of the table.
C18_QueryReturnsMatchingRows ==
    [][\A table \in FindTable(Owner, TableName) :
          \A q \in Unlimited(table.indices) :
              QueryDataEnds(Solo, TableName, q) =>
                  RepliedRows(sess'[Solo].reply, { d \in TableRows : Eval(d, q.filter) })]_vars

\* The same for the states where some row satisfies the filter.
QueryReturnsMatchingRows_NonEmpty ==
    [][\A table \in FindTable(Owner, TableName) :
          \A q \in Unlimited(table.indices) :
              (QueryDataEnds(Solo, TableName, q) /\ \E d \in TableRows : Eval(d, q.filter)) =>
                  RepliedRows(sess'[Solo].reply, { d \in TableRows : Eval(d, q.filter) })]_vars

\* The rows a reply carries, in their order (none without a data field).
ReplyData(msg) == IF Has(msg, "data") THEN msg.data ELSE <<>>

\* The query_data commands of the session with a well-formed filter, a sort
\* that compiles, and a limit that is a non-negative integer.
Limited(indices) ==
    { q \in Queries :
        /\ q.limit.t = "int" /\ q.limit.n >= 0
        /\ WellFormedFilter(q.filter, indices)
        /\ process_received_query_order(q.sort, indices, 1, <<>>).kind = "ok" }

Min(a, b) == IF a < b THEN a ELSE b

\* C19: a query_data with limit L >= 0 is answered with at most L rows, the
\* first min(L, number of matching rows) of the matching rows in an order the
\* sort allows; with L = 0 it carries no row.
C19_LimitBoundsRows ==
    [][\A table \in FindTable(Owner, TableName) :
          \A q \in Limited(table.indices) :
              QueryDataEnds(Solo, TableName, q) =>
                  LET matching == { d \in TableRows : Eval(d, q.filter) }
                      sort == process_received_query_order(q.sort, table.indices,
                                                           1, <<>>).sort
                      rows == ReplyData(sess'[Solo].reply)
                  IN  /\ Len(rows) <= q.limit.n
                      /\ Len(rows) = Min(q.limit.n, Cardinality(matching))
                      /\ \E cursor \in Cursors(matching, sort) :
                             \A i \in DOMAIN rows : rows[i] = RowEntry(cursor[i])]_vars

\* The same for the limits of at least one.
LimitBoundsRows_Positive ==
    [][\A table \in FindTable(Owner, TableName) :
          \A q \in Limited(table.indices) :
              (QueryDataEnds(Solo, TableName, q) /\ q.limit.n >= 1) =>
                  LET matching == { d \in TableRows : Eval(d, q.filter) }
                      sort == process_received_query_order(q.sort, table.indices,
                                                           1, <<>>).sort
                      rows == ReplyData(sess'[Solo].reply)
                  IN  /\ Len(rows) = Min(q.limit.n, Cardinality(matching))
                      /\ \E cursor \in Cursors(matching, sort) :
                             \A i \in DOMAIN rows : rows[i] = RowEntry(cursor[i])]_vars

\* C20: every reply to a query_data or a delete_data command has a success
\* field; a query_data that matches no row is answered {success: true,
\* data: {}} and a delete_data that removes no row {success: true, count: 0}.
C20_ReplyCarriesSuccess ==
    [][\A table \in FindTable(Owner, TableName) :
          /\ \A q \in Queries :
                (QueryDataEnds(Solo, TableName, q) /\ sess'[Solo].state = "idle") =>
                    /\ Has(sess'[Solo].reply, "success")
                    /\ (sess'[Solo].reply.success /\ ReplyData(sess'[Solo].reply) = <<>>) =>
                           sess'[Solo].reply = [success |-> TRUE, data |-> <<>>]
          /\ \A f \in Filters :
                (DeleteDataEnds(Solo, TableName, f) /\ sess'[Solo].state = "idle") =>
                    /\ Has(sess'[Solo].reply, "success")
                    /\ (sess'[Solo].reply.success /\ TableRows' = TableRows) =>
                           sess'[Solo].reply = [success |-> TRUE, count |-> 0]]_vars

\* Reply entry e1 is strictly before e2 in the order of sort specification
\* `sort`: they agree on the keys before some key and differ on it in the
\* key's direction.
StrictlyBefore(e1, e2, sort) ==
    \E k \in DOMAIN sort :
        /\ \A m \in 1..(k - 1) : e1.indexed[sort[m][1]].n = e2.indexed[sort[m][1]].n
        /\ IF sort[k][2] = "asc"
           THEN e1.indexed[sort[k][1]].n < e2.indexed[sort[k][1]].n
           ELSE e1.indexed[sort[k][1]].n > e2.indexed[sort[k][1]].n

\* C21: the rows of the reply to a query_data with a non-empty sort list
\* over sort and unique columns are in the order of the sort specification:
\* no row comes after one it is strictly before (first key first, asc
\* ascending and desc descending on the stored integers).
C21_RowsInSortOrder ==
    [][\A q \in SortQueries :
          QueryDataEnds(Solo, SortTableName, q) =>
              LET rows == ReplyData(sess'[Solo].reply)
              IN  \A i, j \in DOMAIN rows :
                      i < j => ~StrictlyBefore(rows[j], rows[i], q.sort)]_vars

\* C21's case: a reply of three rows sorted by s descending, then z
\* ascending, in which two rows tie on s and are ordered by z, and the rows
\* are not in the order of their row ids.
C21_Witness ==
    LET rows == ReplyData(sess[Solo].reply)
    IN  /\ Len(rows) = 3
        /\ rows[1].indexed["s"].n = 1
        /\ rows[2].indexed["s"].n = 1
        /\ rows[3].indexed["s"].n = 0
        /\ rows[1].indexed["z"].n < rows[2].indexed["z"].n
        /\ rows[1].row_id = "r3"
        /\ rows[2].row_id = "r1"

\* The catalog entries of table t of the owner.
Entries == { t \in tables : t.name = TableName /\ t.owner = Owner }

\* C22: a create_table for a table of the owner that the catalog already
\* holds is answered {success: false, error: 202}, whatever index set it
\* asks for; the catalog entry with its index set and the rows of the table
\* stay as they are.
C22_CreateExistingFailsWith202 ==
    [][\A table_spec \in SeqTableSpecs :
          (CreateFind(Solo, table_spec) /\ Entries # {}) =>
              /\ sess'[Solo].reply = FailureMsg(TABLE_ALREADY_EXISTS)
              /\ sess'[Solo].state = "idle"
              /\ tables' = tables
              /\ colls' = colls]_vars

\* C22's case: create_table was refused with 202 on a table that holds a
\* row.
C22_Witness ==
    /\ sess[Solo].reply = FailureMsg(TABLE_ALREADY_EXISTS)
    /\ Cardinality(Entries) = 1
    /\ TableRows # {}

\* The catalog has at most one entry for each owner and name.
OneEntryPerName ==
    \A t1, t2 \in tables : (t1.name = t2.name /\ t1.owner = t2.owner) => t1 = t2

\* C23: the catalog never holds two entries for one (owner, name), and a
\* create_table that found no entry is answered, also when another session
\* inserted the entry in between: its insert into the catalog does not end
\* the session without a response.
C23_RacingCreatesBothAnswered ==
    [][/\ OneEntryPerName'
       /\ \A s \in Clients :
              CreateInsert(s) => sess'[s].state # "ended"]_vars

\* The part of C23 about the catalog alone.
CatalogKeepsOneEntry == [][OneEntryPerName']_vars

\* The reply to an insert_data whose every datum failed with `code`.
EachFailed(data, code) == [results |-> [k \in DOMAIN data |-> FailureMsg(code)]]

\* Table t was created at some time: its collection has been written.
EverCreated == collection_name(Owner, TableName) \in DOMAIN colls

\* C24: drop_table on a table the catalog does not hold is answered 201; a
\* drop_table that succeeds leaves neither the catalog entry nor any row;
\* while the catalog does not hold the table, every command of the session
\* on it is answered 201 (insert_data for each datum) and changes nothing;
\* and between two commands of the session a table that is not in the
\* catalog has no rows, so that a table created again starts empty.
C24_DroppedTableIsGone ==
    [][/\ DropReturn(Solo) =>
              /\ sess'[Solo].reply = SuccessMsg
              /\ Entries' = {}
              /\ TableRows' = {}
       /\ Entries = {} =>
              /\ DropFind(Solo, TableName) =>
                     sess'[Solo].reply = FailureMsg(TABLE_DOES_NOT_EXIST)
              /\ \A data \in SeqBatches :
                     StartInsert(Solo, TableName, data) =>
                         /\ sess'[Solo].reply = EachFailed(data, TABLE_DOES_NOT_EXIST)
                         /\ sess'[Solo].state = "idle"
              /\ ( \/ \E row_id \in RowIds : QueryByIdEnds(Solo, TableName, row_id)
                   \/ \E query \in Queries : QueryDataEnds(Solo, TableName, query)
                   \/ \E row_id \in RowIds : DeleteByIdEnds(Solo, TableName, row_id)
                   \/ \E query \in Filters : DeleteDataEnds(Solo, TableName, query) ) =>
                     sess'[Solo].reply = FailureMsg(TABLE_DOES_NOT_EXIST)
              /\ ( \/ DropFind(Solo, TableName)
                   \/ \E data \in SeqBatches : StartInsert(Solo, TableName, data)
                   \/ \E row_id \in RowIds : QueryByIdEnds(Solo, TableName, row_id)
                   \/ \E query \in Queries : QueryDataEnds(Solo, TableName, query)
                   \/ \E row_id \in RowIds : DeleteByIdEnds(Solo, TableName, row_id)
                   \/ \E query \in Filters : DeleteDataEnds(Solo, TableName, query) ) =>
                     /\ tables' = tables /\ colls' = colls /\ tasks' = tasks
       /\ (sess'[Solo].state = "idle" /\ Entries' = {}) => TableRows' = {}]_vars

\* C24's case: the table was created and dropped, and a later insert_data of
\* the session was answered 201 for its datum.
C24_Witness ==
    /\ EverCreated
    /\ Entries = {}
    /\ TableRows = {}
    /\ \E data \in SeqBatches : sess[Solo].reply = EachFailed(data, TABLE_DOES_NOT_EXIST)

\* The rows of table t with row id `row_id`.
Holding(row_id) == { d \in TableRows : d.row_id = row_id }

\* C25: delete_by_id is answered 201 when the catalog lacks the table, 301
\* when the table has no row of that row_id, and success otherwise; on
\* success the row of that row_id, and no other, is gone, and the catalog is
\* as before; a query_by_id for a row_id the table does not hold (as after
\* the delete) is answered 301.
C25_DeleteByIdRemovesOneRow ==
    [][\A row_id \in RowIds :
          /\ DeleteByIdEnds(Solo, TableName, row_id) =>
                 /\ tables' = tables
                 /\ IF Entries = {}
                    THEN /\ sess'[Solo].reply = FailureMsg(TABLE_DOES_NOT_EXIST)
                         /\ colls' = colls
                    ELSE IF Holding(row_id) = {}
                    THEN /\ sess'[Solo].reply = FailureMsg(ROW_DOES_NOT_EXIST)
                         /\ colls' = colls
                    ELSE /\ sess'[Solo].reply = SuccessMsg
                         /\ Cardinality(Holding(row_id)) = 1
                         /\ TableRows' = TableRows \ Holding(row_id)
                         /\ Holding(row_id)' = {}
          /\ (QueryByIdEnds(Solo, TableName, row_id) /\ Entries # {} /\ Holding(row_id) = {}) =>
                 sess'[Solo].reply = FailureMsg(ROW_DOES_NOT_EXIST)]_vars

\* C25's case: two rows were inserted, delete_by_id removed one with success
\* and the other is still stored.
C25_Witness ==
    /\ sess[Solo].state = "idle"
    /\ sess[Solo].reply = SuccessMsg
    /\ next_id = 2
    /\ Cardinality(TableRows) = 1
    /\ tasks = <<>>

\* C26: a delete_data with a well-formed filter removes exactly the rows
\* that satisfy the filter (those query_data would select), is answered with
\* their number as count, and leaves the other rows and the catalog as they
\* are; a delete_data whose filter does not compile removes nothing.
C26_DeleteDataRemovesMatching ==
    [][\A table \in FindTable(Owner, TableName) :
          \A f \in Filters :
              DeleteDataEnds(Solo, TableName, f) =>
                  LET matching == { d \in TableRows : Eval(d, f) }
                  IN  /\ tables' = tables
                      /\ IF WellFormedFilter(f, table.indices)
                         THEN /\ TableRows' = TableRows \ matching
                              /\ RepliedCount(sess'[Solo].reply, Cardinality(matching))
                         ELSE process_received_query_filter(f, table.indices).kind = "fail"
                                  => colls' = colls]_vars

\* The same for the states where some row satisfies the filter.
DeleteDataRemovesMatching_NonEmpty ==
    [][\A table \in FindTable(Owner, TableName) :
          \A f \in Filters :
              DeleteDataEnds(Solo, TableName, f) =>
                  LET matching == { d \in TableRows : Eval(d, f) }
                  IN  /\ tables' = tables
                      /\ IF WellFormedFilter(f, table.indices)
                         THEN /\ TableRows' = TableRows \ matching
                              /\ matching # {} =>
                                     RepliedCount(sess'[Solo].reply, Cardinality(matching))
                         ELSE process_received_query_filter(f, table.indices).kind = "fail"
                                  => colls' = colls]_vars

\* C27: the response the server writes to a command that carries a cmd_id
\* carries the same cmd_id, for the commands process_command handles as for
\* exit.
C27_ResponseEchoesCmdId ==
    [][\A frame \in CommandFrames :
          ( /\ (Respond \/ ReadCommand(frame))
            /\ Len(outbox') = Len(outbox) + 1
            /\ Len(received') >= 1
            /\ Has(received'[Len(received')], "cmd_id") )
          => /\ Has(outbox'[Len(outbox')], "cmd_id")
             /\ outbox'[Len(outbox')].cmd_id = received'[Len(received')].cmd_id]_vars

\* The same for exit alone.
ExitEchoesCmdId ==
    [][\A frame \in CommandFrames :
          ( /\ ReadCommand(frame)
            /\ Len(outbox') = Len(outbox) + 1
            /\ Has(received'[Len(received')], "cmd_id") )
          => /\ Has(outbox'[Len(outbox')], "cmd_id")
             /\ outbox'[Len(outbox')].cmd_id = received'[Len(received')].cmd_id]_vars

\* The tables a user owns.
OwnedBy(owner) == { t \in tables : t.owner = owner }

\* A step of a command of session s on its own table.
CommandStep(s) ==
    \/ \E table_spec \in TenantSpecs(s) : CreateFind(s, table_spec)
    \/ CreateInsert(s)
    \/ \E field \in IndexFields : CreateIndex(s, field)
    \/ \E data \in TenantBatches : StartInsert(s, TableOf(s), data)
    \/ \E row_id \in RowIds : TaskFind(<<s, row_id>>)
    \/ \E row_id \in RowIds, col \in LookupFields : TaskLookup(<<s, row_id>>, col)
    \/ \E row_id \in RowIds : TaskWrite(<<s, row_id>>)
    \/ FinishInsert(s)
    \/ InsertRaises(s)
    \/ \E row_id \in RowIds : QueryByIdFind(s, TableOf(s), row_id)
    \/ QueryByIdRow(s)
    \/ \E row_id \in RowIds : DeleteByIdFind(s, TableOf(s), row_id)
    \/ DeleteByIdOne(s)

\* C28: tables of different owners are isolated: for two distinct usernames
\* that both match [0-9A-Za-z_]+, no step of a command of one user changes the
\* rows of a table of the other, so no command of the first changes what a
\* command of the second returns.
C28_OwnersAreIsolated ==
    [][(USERNAME_REGEX(OwnerOf(1)) /\ USERNAME_REGEX(OwnerOf(Guest))
            /\ OwnerOf(1) # OwnerOf(Guest) /\ CommandStep(1))
        => \A t \in OwnedBy(OwnerOf(Guest)) : RowsOf(t)' = RowsOf(t)]_vars

\* Distinct (owner, table name) pairs of the catalog have distinct backing
\* collections.
DistinctTablesDistinctCollections ==
    \A t1, t2 \in tables :
        <<t1.owner, t1.name>> # <<t2.owner, t2.name>>
            => collection_name(t1.owner, t1.name) # collection_name(t2.owner, t2.name)

\* A username the handshake must turn away: it does not fully match
\* [0-9A-Za-z_]+, or it has no file in public_keys/.
Unknown(u) == ~USERNAME_REGEX(u) \/ u \notin Registered

\* C29: a username that does not fully match [0-9A-Za-z_]+ or has no
\* registered public key is answered with {challenge: null, error: 101}; no
\* token is drawn for it, the connection closes, and a connection so answered
\* never authenticates and never has a command dispatched.
C29_UnknownUserIsTurnedAway ==
    /\ [][\A u \in Usernames :
            (state = "AwaitUser" /\ Unknown(u) /\ RecvLogin(ObjFrame([username |-> u])))
                => /\ outbox' = Append(outbox, RejectUserMsg)
                   /\ token' = token
                   /\ state' = "Closed"
                   /\ ending' = "close"]_vars
    /\ []((outbox # <<>> /\ outbox[1] = RejectUserMsg)
            => /\ outbox = <<RejectUserMsg>>
               /\ Unknown(login)
               /\ token = <<>>
               /\ state = "Closed"
               /\ username = <<>>
               /\ dispatched = <<>>)

\* A registered name with a character outside the class was turned away.
C29_Witness ==
    /\ login = <<"a", "-">>
    /\ login \in Registered
    /\ outbox = <<RejectUserMsg>>
    /\ state = "Closed"

\* The operator and the column type of a column test disagree, or agree.
Mismatched(op, type) ==
    \/ op = "text" /\ type \in {"sort", "unique"}
    \/ op \in NumericOperators /\ type \in {"text", "unique_text"}
Agreeing(op, type) ==
    \/ op = "text" /\ type \in {"text", "unique_text"}
    \/ op \in NumericOperators /\ type \in {"sort", "unique"}

\* A command of the session was answered {success: false, error: 305}.
Answered305(after) ==
    /\ after.state = "idle"
    /\ after.reply = FailureMsg(INVALID_INDEX_TYPE)

\* C30: a column test with the text operator on a sort or unique column, or
\* with one of eq, neq, lt, lte, gt, gte on a text or unique_text column,
\* compiles to failure 305, and delete_data and query_data answer it with 305
\* and change no row; a column test whose operator and column type agree
\* never compiles to 305 and is never answered with 305.
C30_MismatchFailsWith305 ==
    [][\A table \in FindTable(Owner, FilterTableName) :
         \A column \in Columns(table.indices), op \in Operators, arg \in {IntV(1), StrV("p")} :
            LET filter == ColTest(column, op, arg)
                type == TypeOf(table.indices, column)
                compiled == process_received_query_filter(filter, table.indices)
            IN  (\/ DeleteDataEnds(Solo, FilterTableName, filter)
                 \/ QueryDataEnds(Solo, FilterTableName, Query(filter, <<>>, NoneV)))
                => /\ Mismatched(op, type) =>
                        /\ compiled = FilterFail(INVALID_INDEX_TYPE)
                        /\ Answered305(sess'[Solo])
                        /\ colls' = colls
                   /\ Agreeing(op, type) =>
                        /\ ~(compiled.kind = "fail" /\ compiled.code = INVALID_INDEX_TYPE)
                        /\ ~Answered305(sess'[Solo])]_vars

\* The session asked for the rows whose sort column passes a text test, or
\* the like, and was answered 305 while its table held a row.
C30_Witness ==
    /\ FindTable(Owner, FilterTableName) # {}
    /\ Coll(collection_name(Owner, FilterTableName)).rows # {}
    /\ Answered305(sess[Solo])

\* What a filter does on a table: it fails to compile with a code, or it
\* raises (in the compiler or in the store), or it selects rows of the table.
Outcome(filter, table) ==
    LET compiled == process_received_query_filter(filter, table.indices)
    IN  IF compiled.kind = "fail" THEN [kind |-> "fail", code |-> compiled.code, rows |-> {}]
        ELSE IF compiled.kind = "raise" \/ ~ValidQuery(compiled.q)
        THEN [kind |-> "raise", code |-> 0, rows |-> {}]
        ELSE [kind |-> "ok", code |-> 0,
              rows |-> { d \in RowsOf(table) : MatchesQuery(d, compiled.q) }]

\* Filter f does on the table what filter g does.
SameAs(f, g, table) == Outcome(f, table) = Outcome(g, table)

\* Filter f fails as filter g fails, or selects the rows g does not select.
ComplementOf(f, g, table) ==
    LET a == Outcome(f, table)
        b == Outcome(g, table)
    IN  /\ a.kind = b.kind
        /\ a.code = b.code
        /\ a.kind = "ok" => a.rows = RowsOf(table) \ b.rows

\* C31: for every leaf x and every state of the table, and([x]) selects the
\* rows x selects, not_and([not_and([x])]) selects the rows x selects,
\* not_and(children) selects the rows and(children) does not select and
\* not_or(children) the rows or(children) does not select (a filter that
\* fails, fails alike in each of the forms); and delete_data removes, and
\* query_data returns, the rows the filter selects.
C31_CompositionIsSound ==
    /\ [](\A table \in FindTable(Owner, FilterTableName) :
            /\ \A x \in LeafFilters :
                  /\ SameAs(Group("and", <<x>>), x, table)
                  /\ SameAs(Group("not_and", <<Group("not_and", <<x>>)>>), x, table)
            /\ \A children \in Children :
                  /\ ComplementOf(Group("not_and", children), Group("and", children), table)
                  /\ ComplementOf(Group("not_or", children), Group("or", children), table))
    /\ [][\A table \in FindTable(Owner, FilterTableName) :
            \A filter \in GroupFilters :
               LET o == Outcome(filter, table)
               IN  /\ DeleteDataEnds(Solo, FilterTableName, filter) =>
                         IF o.kind = "ok" THEN RowsOf(table)' = RowsOf(table) \ o.rows
                                          ELSE colls' = colls
                   /\ (QueryDataEnds(Solo, FilterTableName, Query(filter, <<>>, NoneV))
                          /\ o.kind = "ok" /\ o.rows # {})
                         => RepliedRows(sess'[Solo].reply, o.rows)]_vars

\* A delete_data removed one row of the table and left another, which a leaf
\* does not select and the not_and of the leaf does.
C31_Witness ==
    \E table \in FindTable(Owner, FilterTableName) :
        /\ Cardinality(RowsOf(table)) = 1
        /\ RepliedCount(sess[Solo].reply, 1)
        /\ \E x \in LeafFilters :
              /\ Outcome(x, table).kind = "ok"
              /\ Outcome(x, table).rows = {}
              /\ Outcome(Group("not_and", <<x>>), table).rows = RowsOf(table)

\* The commands of the protocol.
ProtocolCmds ==
    {"create_table", "insert_data", "query_by_id", "query_data",
     "delete_by_id", "delete_data", "drop_table", "exit"}

\* C32: a command whose cmd is none of the protocol's is dispatched and
\* answered with {success: false, error: 1}; the answer changes neither the
\* catalog nor a row, and leaves the session waiting for its next command as
\* after any other answer.
C32_UnknownCommandAnsweredWith1 ==
    /\ [][\A frame \in CommandFrames :
            LET r == read_json(frame)
            IN  (state = "AuthedIdle" /\ CanIndex(r, "cmd") /\ r.obj.cmd \notin ProtocolCmds
                    /\ ReadCommand(frame))
                    => /\ state' = "Dispatching"
                       /\ req' = r.obj
                       /\ outbox' = outbox]_vars
    /\ [][(state = "Dispatching" /\ req.cmd \notin ProtocolCmds /\ Respond)
            => /\ outbox' = Append(outbox, FailureMsg(COMMAND_TYPE_DOES_NOT_EXIST))
               /\ state' = "AuthedIdle"
               /\ ending' = ending
               /\ tables' = tables
               /\ colls' = colls]_vars

\* An unknown command was answered with error 1, and the command read after
\* it was answered too.
C32_Witness ==
    /\ Len(dispatched) = 2
    /\ dispatched[1].cmd \notin ProtocolCmds
    /\ dispatched[2].cmd = "query_by_id"
    /\ Len(outbox) = 3
    /\ outbox[2] = FailureMsg(COMMAND_TYPE_DOES_NOT_EXIST)
    /\ outbox[3] = KeyedMsg("row")
    /\ state = "AuthedIdle"

\* The moves of the session's state machine: the four arrows, and Closed from
\* every other state.
SessionStates == {"AwaitUser", "AwaitResponse", "AuthedIdle", "Dispatching", "Closed"}
Arrows ==
    { <<"AwaitUser", "AwaitResponse">>, <<"AwaitResponse", "AuthedIdle">>,
      <<"AuthedIdle", "Dispatching">>, <<"Dispatching", "AuthedIdle">> }
        \cup { <<from, "Closed">> : from \in SessionStates \ {"Closed"} }
MovesAlongArrows ==
    [][/\ state \in SessionStates /\ state' \in SessionStates
       /\ state' # state => <<state, state'>> \in Arrows
       /\ state = "Closed" => outbox' = outbox]_vars

\* What was read is no message (a close, an error, a frame that is not text,
\* JSON null), or a JSON value that Python takes for false ({}, 0, "", []).
AbsentOrEmpty(frame) ==
    \/ read_json(frame).kind = "none"
    \/ read_json(frame).kind = "value" /\ ~read_json(frame).truthy

\* What was read is absent, or is not the message the handshake expects: not
\* JSON, not an object, an object without the key, or (for the response) a
\* value that is not hex.
AbsentOrMalformed(frame, key) ==
    IF ~CanIndex(read_json(frame), key) THEN TRUE
    ELSE key = "response" /\ ~fromhex(read_json(frame).obj.response).ok

\* C33: the session only moves along AwaitUser -> AwaitResponse -> AuthedIdle
\* <-> Dispatching -> Closed, and Closed is absorbing; when the message read
\* in AwaitUser or in AwaitResponse is absent or malformed, the session goes
\* directly to Closed without writing any message.
C33_HandshakeClosesSilently ==
    /\ MovesAlongArrows
    /\ [][\A frame \in LoginFrames :
            (state = "AwaitUser" /\ AbsentOrMalformed(frame, "username") /\ RecvLogin(frame))
                => state' = "Closed" /\ outbox' = outbox]_vars
    /\ [][\A frame \in ResponseFrames :
            (state = "AwaitResponse" /\ AbsentOrMalformed(frame, "response")
                /\ RecvResponse(frame))
                => state' = "Closed" /\ outbox' = outbox]_vars

\* C33, amended: the session only moves along AwaitUser -> AwaitResponse ->
\* AuthedIdle <-> Dispatching -> Closed, and Closed is absorbing; an absent or
\* malformed message read in AwaitUser closes the session with nothing
\* written; an absent or malformed message read in AwaitResponse closes the
\* session without authenticating it, after {success: false, error: 2} is
\* written when the message is absent or an empty value, and with nothing
\* written otherwise.
C33_HandshakeClosesOnBadMessage ==
    /\ MovesAlongArrows
    /\ [][\A frame \in LoginFrames :
            (state = "AwaitUser" /\ AbsentOrMalformed(frame, "username") /\ RecvLogin(frame))
                => state' = "Closed" /\ outbox' = outbox]_vars
    /\ [][\A frame \in ResponseFrames :
            (state = "AwaitResponse" /\ AbsentOrMalformed(frame, "response")
                /\ RecvResponse(frame))
                => /\ state' = "Closed"
                   /\ username' = <<>>
                   /\ outbox' = IF AbsentOrEmpty(frame)
                                THEN Append(outbox, FailureMsg(REQUEST_IMPROPERLY_FORMATTED))
                                ELSE outbox]_vars

\* The challenge was sent, what came back was no message or an empty value,
\* and the session closed after writing error 2.
C33_Witness ==
    /\ state = "Closed"
    /\ token # <<>>
    /\ ~response.seen
    /\ username = <<>>
    /\ Len(outbox) = 2
    /\ outbox[2] = FailureMsg(REQUEST_IMPROPERLY_FORMATTED)

\* The rows of the table whose stored value in the column differs from v.
Differing(table, column, v) == { d \in RowsOf(table) : d.index[column] # v }

\* C34: a delete_data or query_data whose filter is a neq leaf {col: {neq: v}}
\* on a sort or unique column succeeds and selects exactly the rows whose
\* stored value in col differs from v: delete_data removes them and reports
\* success, query_data returns them.
C34_NeqSelectsDifferingRows ==
    [][\A table \in FindTable(Owner, FilterTableName) :
         \A column \in { c \in Columns(table.indices) :
                            TypeOf(table.indices, c) \in {"sort", "unique"} } :
            LET filter == ColTest(column, "neq", IntV(1))
                differing == Differing(table, column, IntV(1))
            IN  /\ DeleteDataEnds(Solo, FilterTableName, filter) =>
                      /\ sess'[Solo].state = "idle"
                      /\ RowsOf(table)' = RowsOf(table) \ differing
                      /\ differing # {} =>
                             RepliedCount(sess'[Solo].reply, Cardinality(differing))
                /\ QueryDataEnds(Solo, FilterTableName, Query(filter, <<>>, NoneV)) =>
                      /\ sess'[Solo].state = "idle"
                      /\ differing # {} => RepliedRows(sess'[Solo].reply, differing)]_vars

\* A command of the session was answered {success: false, error: 2}.
Answered2(after) ==
    /\ after.state = "idle"
    /\ after.reply = FailureMsg(REQUEST_IMPROPERLY_FORMATTED)

\* C35: a filter node with more than one key, and a leaf whose operator
\* object has no key or more than one key, compile to failure 2 whatever the
\* index type of the leaf's column, and delete_data and query_data answer
\* them with error 2 and change no row.
C35_NotOneKeyFailsWith2 ==
    [][\A table \in FindTable(Owner, FilterTableName) :
         \A filter \in OddFilters :
            (\/ DeleteDataEnds(Solo, FilterTableName, filter)
             \/ QueryDataEnds(Solo, FilterTableName, Query(filter, <<>>, NoneV)))
            => /\ process_received_query_filter(filter, table.indices)
                      = FilterFail(REQUEST_IMPROPERLY_FORMATTED)
               /\ Answered2(sess'[Solo])
               /\ colls' = colls]_vars

\* On a sort or unique column the leaves without exactly one operator, and
\* the nodes with two keys that are not empty, are answered with error 2.
NotOneKeyFailsWith2_Numeric ==
    [][\A table \in FindTable(Owner, FilterTableName) :
         \A filter \in { NoOperator(c) : c \in {"s", "u"} }
                           \cup { TwoOperators(c) : c \in {"s", "u"} }
                           \cup { f \in TwoKeys : f[1].k # "" } :
            (\/ DeleteDataEnds(Solo, FilterTableName, filter)
             \/ QueryDataEnds(Solo, FilterTableName, Query(filter, <<>>, NoneV)))
            => /\ Answered2(sess'[Solo])
               /\ colls' = colls]_vars

\* No command of a session is running: every session is between commands
\* (or over) and no insert_datum task is left.
AllFinished ==
    /\ \A s \in Racers : sess[s].state \in {"idle", "ended"} /\ sess[s].pending = {}
    /\ tasks = <<>>

\* C36: drop_table is atomic with respect to other sessions: once a
\* drop_table and the insert_data commands that ran beside it are finished,
\* the collection of the dropped table holds no row, so a table created
\* later under the name starts without rows.
C36_DropLeavesNoOrphanRow ==
    (AllFinished /\ ~TableExists) => TableRows = {}

\* The steps of the connection task, which the event loop runs whenever the
\* task can go on.
TaskStep ==
    \/ \E outcome \in {"ok", "ClientConnectionError"} : Connect(outcome)
    \/ \E frame \in ChallengeFrames, sent \in BOOLEAN : RecvChallenge(frame, sent)
    \/ LoopExit
    \/ \E sent \in BOOLEAN : GetAndSend(sent)
    \/ RecvReply

\* The server deals with a command it has received: it answers it, or its
\* side of the connection ends.
PeerStep ==
    \/ PeerAccepts
    \/ PeerRejects
    \/ \E truthy \in BOOLEAN : PeerReply(truthy)
    \/ peer_inbox # <<>> /\ \E type \in {"CLOSE", "ERROR"} : PeerCloses(type)

\* The n-th completion was enqueued and is pending, or is resolved.
Pending(n) == n \in DOMAIN futures /\ futures[n].st = "pending"
Resolved(n) == n \in DOMAIN futures /\ futures[n].st # "pending"

\* C37: no enqueued completion stays pending forever: the completion of
\* close()'s exit, and every other one, is eventually resolved with a
\* response or with an error, however the connection task ends.
C37_NoCompletionPendsForever ==
    \A n \in 1..MaxCmds : Pending(n) ~> Resolved(n)

\* C37 on a session that authenticated: the completion of an exit command
\* that was written to the server is eventually resolved.
CloseReturnsOnceSent ==
    \A n \in 1..MaxCmds :
        (Pending(n) /\ sent_exit /\ current_future = n /\ task = "await_response")
            ~> Resolved(n)

-----------------------------------------------------------------------------
(* Specifications *)

Init == InitServer /\ InitClient /\ InitStore

\* One server connection.
Next == NextServer

Spec == Init /\ [][Next]_vars

\* One client connection.
SpecClient == Init /\ [][NextClient]_vars

\* Sessions running row commands against one store.
SpecStore == Init /\ [][NextStore]_vars

\* One session running row commands and queries in sequence.
SpecSeq == Init /\ [][NextSeq]_vars

\* Sessions of one owner creating tables and inserting rows concurrently.
SpecCatalog == Init /\ [][NextCatalog]_vars

\* One session inserting into and querying a table with two sortable columns.
SpecSort == Init /\ [][NextSort]_vars

\* Sessions of two users, each working on its own table.
SpecOwners == Init /\ [][NextOwners]_vars

\* One session testing every operator against every type of column.
SpecFilter == Init /\ [][NextFilter]_vars

\* Sessions of one owner inserting into a table and dropping it concurrently.
SpecDrop == Init /\ [][NextDrop]_vars

\* One client connection whose task runs whenever it can and whose server
\* deals with every command it receives.
SpecClientLive ==
    Init /\ [][NextClient]_vars /\ WF_vars(TaskStep) /\ WF_vars(PeerStep)

=============================================================================
